---- MODULE Spec2Model ----
(***************************************************************************)
(* Music-Feedback-App: the audio feature extraction pipeline               *)
(* (server/services/enhancedAudioAnalysis.js) and the LLM feedback call    *)
(* (server/services/openaiService.js, enhancedOpenAI) as a state machine.  *)
(*                                                                         *)
(* Units: tempo in BPM, loudness in LUFS, and the 0..1 quantities          *)
(* (dynamic range, spectral contrast, flatness, energy) in hundredths.     *)
(* An optional JavaScript value is a sequence of length at most one:       *)
(* << >> is undefined (property absent), <<v>> is the value v.             *)
(***************************************************************************)
EXTENDS Integers, Sequences, FiniteSets, TLC

\* Identifiers of pipeline runs (calls of extractEnhancedAudioFeatures).
Runs == {"r1", "r2"}

\* The runs that the single-request specification Spec starts.
SingleRun == {"r1"}

Absent == << >>

Some(v) == <<v>>

\* JavaScript truthiness of an optional number: undefined and 0 are falsy.
Truthy(o) == o # Absent /\ o[1] # 0

\* JavaScript truthiness of an optional string: undefined and '' are falsy.
TruthyStr(o) == o # Absent /\ o[1] # ""

\* a || d on an optional number: the operand when truthy, else the default.
OrElse(o, d) == IF Truthy(o) THEN o[1] ELSE d

\* a || d on an optional string.
OrElseStr(o, d) == IF TruthyStr(o) THEN o[1] ELSE d

\* a || b on two optional values, result optional.
OrOpt(a, b) == IF Truthy(a) THEN a ELSE b

\* JavaScript relational operators on a possibly undefined left operand:
\* undefined converts to NaN and every comparison with NaN is false.
Gt(o, n) == o # Absent /\ o[1] > n

Lt(o, n) == o # Absent /\ o[1] < n

\* Object spread { ...a, ...b } on records with the same optional fields.
Spread(a, b) == [k \in DOMAIN a |-> IF b[k] # Absent THEN b[k] ELSE a[k]]

(***************************************************************************)
(* Paths                                                                   *)
(***************************************************************************)
TrackPath == "uploads/track.mp3"

\* path.join(dirname, basename without extension + '_normalized.wav')
OutputPath == "uploads/track_normalized.wav"

(***************************************************************************)
(* Feature categories                                                      *)
(***************************************************************************)
EmptyWaveform == [loudness |-> Absent, dynamicRange |-> Absent, crest |-> Absent]

EmptySpectral == [contrast |-> Absent, flatness |-> Absent, centroid |-> Absent]

EmptyRhythm == [bpm |-> Absent, beatStrength |-> Absent]

EmptyHarmonic == [key |-> Absent, scale |-> Absent, strength |-> Absent]

\* What extractEssentiaFeatures returns from its catch block.
EmptyAnalysis ==
  [waveform |-> EmptyWaveform, spectral |-> EmptySpectral,
   rhythm |-> EmptyRhythm, harmonic |-> EmptyHarmonic]

\* The simulated Meyda features.
MeydaFeatures ==
  [spectral |-> [contrast |-> Absent, flatness |-> Some(30), centroid |-> Some(2500)],
   waveform |-> [loudness |-> Absent, dynamicRange |-> Absent, crest |-> Some(420)]]

\* Measurements the Essentia backend can deliver.  The first is the shape of
\* enhancedAudioAnalysis.js (key and scale in one string, no loudness, no
\* dynamic range, no contrast), the others the shape of the variant with
\* per-category extractors.
EssentiaMeasurements ==
  { [waveform |-> EmptyWaveform,
     spectral |-> [contrast |-> Absent, flatness |-> Absent, centroid |-> Some(3200)],
     rhythm   |-> [bpm |-> Some(128), beatStrength |-> Absent],
     harmonic |-> [key |-> Some("A minor"), scale |-> Absent, strength |-> Absent]],
    [waveform |-> [loudness |-> Some(-9), dynamicRange |-> Some(70), crest |-> Absent],
     spectral |-> [contrast |-> Some(70), flatness |-> Absent, centroid |-> Absent],
     rhythm   |-> [bpm |-> Some(95), beatStrength |-> Some("Strong")],
     harmonic |-> [key |-> Some("C"), scale |-> Some("major"), strength |-> Some(80)]],
    [waveform |-> [loudness |-> Some(-20), dynamicRange |-> Some(30), crest |-> Absent],
     spectral |-> [contrast |-> Some(50), flatness |-> Absent, centroid |-> Absent],
     rhythm   |-> [bpm |-> Some(0), beatStrength |-> Some("Unknown")],
     harmonic |-> [key |-> Some("C"), scale |-> Some("major"), strength |-> Some(50)]] }

\* Tags mm.parseFile can deliver: with or without a declared BPM.
MetadataTags ==
  { [title |-> Absent, artist |-> Absent, genre |-> Absent, bpm |-> Absent],
    [title |-> Some("Song"), artist |-> Some("Me"), genre |-> Some("Techno"), bpm |-> Some(100)] }

extractBasicMetadata(tags) ==
  [title  |-> OrElseStr(tags.title, "Unknown Title"),
   artist |-> OrElseStr(tags.artist, "Unknown Artist"),
   genre  |-> OrElseStr(tags.genre, "Electronic"),
   bpm    |-> tags.bpm]

(***************************************************************************)
(* Qualitative describer                                                   *)
(***************************************************************************)
\* Variant in which each boundary value belongs to the lower band.
describeTempo_BoundaryInLowerBand(bpm) ==
  IF ~Truthy(bpm) THEN "Unknown tempo"
  ELSE IF bpm[1] <= 70 THEN "Very slow tempo"
  ELSE IF bpm[1] <= 90 THEN "Slow tempo"
  ELSE IF bpm[1] <= 120 THEN "Moderate tempo"
  ELSE IF bpm[1] <= 140 THEN "Energetic tempo"
  ELSE IF bpm[1] <= 160 THEN "Fast tempo"
  ELSE "Very fast tempo"

describeTempo(bpm) ==
  IF ~Truthy(bpm) THEN "Unknown tempo"
  ELSE IF bpm[1] < 70 THEN "Very slow tempo"
  ELSE IF bpm[1] < 90 THEN "Slow tempo"
  ELSE IF bpm[1] < 120 THEN "Moderate tempo"
  ELSE IF bpm[1] < 140 THEN "Energetic tempo"
  ELSE IF bpm[1] < 160 THEN "Fast tempo"
  ELSE "Very fast tempo"

describeTempoQuality(bpm, beatStrength) ==
  IF ~TruthyStr(beatStrength) THEN "Unknown beat quality"
  ELSE IF beatStrength[1] = "Strong" THEN "Solid and consistent beat"
  ELSE IF beatStrength[1] = "Moderate" THEN "Decent beat presence"
  ELSE "Beat could be more pronounced"

describeDynamics(dynamicRange) ==
  IF ~Truthy(dynamicRange) THEN "Unknown dynamic range"
  ELSE IF dynamicRange[1] > 80 THEN "Excellent dynamic range with great contrast between quiet and loud parts"
  ELSE IF dynamicRange[1] > 60 THEN "Good dynamic range"
  ELSE IF dynamicRange[1] > 40 THEN "Moderate dynamic range"
  ELSE "Limited dynamic range, could benefit from more variation in volume"

describeSpectralBalance(spectralContrast) ==
  IF ~Truthy(spectralContrast) THEN "Unknown frequency balance"
  ELSE IF spectralContrast[1] > 80 THEN "Excellent frequency balance with clear separation between elements"
  ELSE IF spectralContrast[1] > 60 THEN "Good balance across frequency spectrum"
  ELSE IF spectralContrast[1] > 40 THEN "Decent frequency balance but some elements might mask others"
  ELSE "Frequency spectrum could be more balanced, some frequency masking issues"

describeLoudness(loudness) ==
  IF ~Truthy(loudness) THEN "Unknown loudness"
  ELSE IF loudness[1] > -10 THEN "Very loud mix, possibly over-compressed"
  ELSE IF loudness[1] > -14 THEN "Loud modern mix"
  ELSE IF loudness[1] > -18 THEN "Well-balanced loudness"
  ELSE "Relatively quiet mix, could benefit from careful mastering"

assessLoudnessQuality(loudness) ==
  IF ~Truthy(loudness) THEN "Unknown"
  ELSE IF loudness[1] > -8 THEN "Too loud, dynamic range is likely compromised"
  ELSE IF loudness[1] > -14 THEN "Good loudness for modern electronic music"
  ELSE IF loudness[1] > -20 THEN "Good loudness with preserved dynamics"
  ELSE "Could be louder while maintaining dynamics"

\* The complexity score is carried in six-hundredths, so that the division by
\* one, two or three factors is exact: 0.8 is 480, 0.6 is 360, 0.4 is 240.
describeComplexity(complexityScore) ==
  IF complexityScore > 480 THEN "Track has complex and sophisticated arrangement"
  ELSE IF complexityScore > 360 THEN "Track has good variation and interesting elements"
  ELSE IF complexityScore > 240 THEN "Track has decent arrangement complexity"
  ELSE "Track could benefit from more variation and complexity in arrangement"

(***************************************************************************)
(* Feature aggregator                                                      *)
(***************************************************************************)
\* score starts at 0.5 and each truthy factor is added to it; the sum is
\* divided by the number of factors and capped at 1.  Result in six-hundredths.
calculateComplexityScore(features) ==
  LET c == features.spectral.contrast
      d == features.waveform.dynamicRange
      f == features.spectral.flatness
      score == 50 + (IF Truthy(c) THEN c[1] ELSE 0)
                  + (IF Truthy(d) THEN d[1] ELSE 0)
                  + (IF Truthy(f) THEN 100 - f[1] ELSE 0)
      factors == (IF Truthy(c) THEN 1 ELSE 0) + (IF Truthy(d) THEN 1 ELSE 0)
                 + (IF Truthy(f) THEN 1 ELSE 0)
      quotient == IF factors > 0 THEN (score * 6) \div factors ELSE 0
  IN IF factors > 0 THEN (IF quotient < 600 THEN quotient ELSE 600) ELSE 300

deriveMood(features) ==
  LET tempo == OrElse(features.rhythm.bpm, 120)
      dynamics == OrElse(features.waveform.dynamicRange, 50)
      spectralBalance == OrElse(features.spectral.contrast, 50)
      energy == IF tempo > 125 THEN "high" ELSE IF tempo > 100 THEN "medium" ELSE "low"
      \* (dynamics + spectralBalance) / 2 > 0.6
      complexity == IF dynamics + spectralBalance > 120 THEN "complex" ELSE "simple"
  IN IF energy = "high" /\ complexity = "complex" THEN "Energetic and sophisticated"
     ELSE IF energy = "high" /\ complexity = "simple" THEN "Energetic and straightforward"
     ELSE IF energy = "medium" /\ complexity = "complex" THEN "Balanced and nuanced"
     ELSE IF energy = "medium" /\ complexity = "simple" THEN "Smooth and accessible"
     ELSE IF energy = "low" /\ complexity = "complex" THEN "Atmospheric and intricate"
     ELSE IF energy = "low" /\ complexity = "simple" THEN "Calm and minimal"
     ELSE "Balanced electronic"

\* The template literal `${key} ${scale}`: an undefined scale prints as
\* the text 'undefined'.
KeyAndScale(key, scale) == key[1] \o " " \o (IF scale = Absent THEN "undefined" ELSE scale[1])

formatFeaturesForFeedback(features) ==
  [kind   |-> "formatted",
   title  |-> features.metadata.title,
   artist |-> features.metadata.artist,
   genre  |-> features.metadata.genre,
   tempo  |-> [value |-> OrElse(OrOpt(features.rhythm.bpm, features.metadata.bpm), 120),
               description |-> describeTempo(OrOpt(features.rhythm.bpm, features.metadata.bpm)),
               quality |-> describeTempoQuality(features.rhythm.bpm, features.rhythm.beatStrength)],
   loudness |-> [value |-> OrElse(features.waveform.loudness, -14),
                 description |-> describeLoudness(features.waveform.loudness),
                 quality |-> assessLoudnessQuality(features.waveform.loudness)],
   dynamics |-> [value |-> OrElse(features.waveform.dynamicRange, 50),
                 description |-> describeDynamics(features.waveform.dynamicRange),
                 quality |-> IF Gt(features.waveform.dynamicRange, 50)
                             THEN "Good dynamic range" ELSE "Limited dynamic range",
                 improvementNeeded |-> Lt(features.waveform.dynamicRange, 50)],
   mixBalance |-> [value |-> OrElse(features.spectral.contrast, 50),
                   description |-> describeSpectralBalance(features.spectral.contrast),
                   quality |-> IF OrElse(features.spectral.contrast, 50) > 60
                               THEN "Well-balanced" ELSE "Could be more balanced"],
   harmonic |-> IF TruthyStr(features.harmonic.key)
                THEN [key |-> KeyAndScale(features.harmonic.key, features.harmonic.scale),
                      strength |-> features.harmonic.strength,
                      description |-> "Track is in " \o KeyAndScale(features.harmonic.key, features.harmonic.scale)]
                ELSE [key |-> "Unknown", strength |-> Absent,
                      description |-> "Could not determine key"],
   complexity |-> [value |-> calculateComplexityScore(features),
                   description |-> describeComplexity(calculateComplexityScore(features))],
   mood |-> deriveMood(features)]

(***************************************************************************)
(* State                                                                   *)
(***************************************************************************)
VARIABLES
  trackOnDisk,        \* fs.existsSync(trackPath): the uploaded file is there
  outFile,            \* the file at OutputPath: "none", "partial" or "complete"
  essentiaAvailable,  \* essentiaInstance.available / essentiaAvailable flag
  pc,                 \* per run: position of extractFeaturesWithFallbacks
  normalizedPath,     \* per run: the local normalizedPath ("" before it is set)
  features,           \* per run: the local features object, optional
  normalizeStage,     \* per run: "notStarted", "running", "ended", "errored"
  metadataStage,      \* per run: "notStarted", "running", "returned", "failed"
  essentiaStage,      \* per run: "notStarted", "skipped", "running", "returned", "failed"
  meydaStage,         \* per run: "notStarted", "running", "returned", "failed"
  wroteOut,           \* per run: this run's ffmpeg wrote to OutputPath
  inner,              \* per run: promise of extractFeaturesWithFallbacks
  innerError,         \* per run: the message that promise rejected with, "" if none
  outer,              \* per run: promise of extractEnhancedAudioFeatures
  result              \* per run: the value the outer promise settled with, optional

pipelineVars ==
  <<trackOnDisk, outFile, essentiaAvailable, pc, normalizedPath, features,
    normalizeStage, metadataStage, essentiaStage, meydaStage, wroteOut,
    inner, innerError, outer, result>>

VARIABLES
  llmModule,      \* the module the endpoint requires: "openaiService" or "enhancedOpenAI"
  apiKeyPresent,  \* process.env.OPENAI_API_KEY is set and not blank
  llmPc,          \* per request: "idle", "waiting", "settled"
  llmCause,       \* per request: what ended the OpenAI call
  llm,            \* per request: promise of analyzeMusicTrack
  llmValue,       \* per request: what that promise settled with, optional
  httpStatus      \* per request: status of the response sent, 0 before it

llmVars == <<llmModule, apiKeyPresent, llmPc, llmCause, llm, llmValue, httpStatus>>

(***************************************************************************)
(* extractEnhancedAudioFeatures: the race and its catch block              *)
(***************************************************************************)
TimeoutMessage == "AUDIO_ANALYSIS_TIMEOUT"

BasicFeatures == [tempo |-> 120, key |-> "Unknown", energy |-> 50, dynamics |-> 6]

\* Variant in which the timeout branch builds a record with other values.
DefaultRecord_ValuesByCause(errorText) ==
  [kind |-> "default",
   tempo |-> IF errorText = "Analysis timed out - using default features" THEN 0 ELSE 120,
   key |-> "Unknown", energy |-> 50,
   dynamics |-> 6, audioFeatures |-> BasicFeatures, error |-> errorText]

\* The record both branches of the catch block build.
DefaultRecord(errorText) ==
  [kind |-> "default", tempo |-> 120, key |-> "Unknown", energy |-> 50,
   dynamics |-> 6, audioFeatures |-> BasicFeatures, error |-> errorText]

\* Variant of the catch block that rethrows every error but the timeout.
CatchEnhanced_Rethrows(message) ==
  IF message = TimeoutMessage
  THEN [status |-> "fulfilled",
        value |-> DefaultRecord("Analysis timed out - using default features")]
  ELSE [status |-> "rejected", value |-> DefaultRecord(message)]

\* Variant of the catch block that reports every error as a timeout.
CatchEnhanced_LosesMessage(message) ==
  [status |-> "fulfilled",
   value |-> DefaultRecord("Analysis timed out - using default features")]

\* Variant of the catch block without the branch for the timeout.
CatchEnhanced_NoTimeoutBranch(message) ==
  [status |-> "fulfilled", value |-> DefaultRecord(message)]

\* catch (error) of extractEnhancedAudioFeatures: the promise it settles with.
CatchEnhanced(message) ==
  IF message = TimeoutMessage
  THEN [status |-> "fulfilled",
        value |-> DefaultRecord("Analysis timed out - using default features")]
  ELSE [status |-> "fulfilled", value |-> DefaultRecord(message)]

\* return await Promise.race([...]) when extractFeaturesWithFallbacks won.
ReturnRace(value) == [status |-> "fulfilled", value |-> value]

\* catch (error) of extractFeaturesWithFallbacks: rethrows with context.
WrapError(message) == "Enhanced audio analysis failed: " \o message

NotFoundMessage == "Audio file not found at path: " \o TrackPath

MetadataFailedMessage == "Metadata extraction failed: parse error"

NormalizationFailedMessage == "Audio normalization failed: ffmpeg error"

\* The outer promise settles with the first of the two racers; a later
\* settlement of the other one is ignored.
SettleOuter(r, settlement) ==
  IF outer[r] = "racing"
  THEN /\ outer' = [outer EXCEPT ![r] = settlement.status]
       /\ result' = [result EXCEPT ![r] = Some(settlement.value)]
  ELSE UNCHANGED <<outer, result>>

\* throw new Error(...) out of extractFeaturesWithFallbacks: its promise
\* rejects with the wrapped message and the race, if undecided, is lost to it.
RejectInner(r, message) ==
  /\ pc' = [pc EXCEPT ![r] = "failed"]
  /\ inner' = [inner EXCEPT ![r] = "rejected"]
  /\ innerError' = [innerError EXCEPT ![r] = WrapError(message)]
  /\ SettleOuter(r, CatchEnhanced(WrapError(message)))

(***************************************************************************)
(* normalizeAudioFile                                                      *)
(***************************************************************************)
\* Variant that rejects on 'error', as normalizeAudioToWav does.
normalizeAudioFile_Rejects(event) ==
  IF event = "error"
  THEN [status |-> "rejected", path |-> TrackPath]
  ELSE [status |-> "fulfilled", path |-> OutputPath]

\* The promise normalizeAudioFile returns, by the ffmpeg event that ends the
\* conversion: 'error' resolves with the original path, 'end' with outputPath.
normalizeAudioFile(event) ==
  IF event = "error"
  THEN [status |-> "fulfilled", path |-> TrackPath]
  ELSE [status |-> "fulfilled", path |-> OutputPath]

(***************************************************************************)
(* extractFeaturesWithFallbacks, one action per await                      *)
(***************************************************************************)
\* Entry of extractEnhancedAudioFeatures up to the first await of
\* extractFeaturesWithFallbacks: the timer is armed, the existence check is
\* made and ffmpeg is started.
StartRun(r) ==
  /\ pc[r] = "idle"
  /\ IF trackOnDisk
     THEN /\ pc' = [pc EXCEPT ![r] = "normalize"]
          /\ normalizeStage' = [normalizeStage EXCEPT ![r] = "running"]
          /\ inner' = [inner EXCEPT ![r] = "pending"]
          /\ outer' = [outer EXCEPT ![r] = "racing"]
          /\ UNCHANGED <<result, innerError>>
     ELSE /\ pc' = [pc EXCEPT ![r] = "failed"]
          /\ inner' = [inner EXCEPT ![r] = "rejected"]
          /\ innerError' = [innerError EXCEPT ![r] = WrapError(NotFoundMessage)]
          /\ outer' = [outer EXCEPT ![r] = CatchEnhanced(WrapError(NotFoundMessage)).status]
          /\ result' = [result EXCEPT ![r] = Some(CatchEnhanced(WrapError(NotFoundMessage)).value)]
          /\ UNCHANGED normalizeStage
  /\ UNCHANGED <<trackOnDisk, outFile, essentiaAvailable, normalizedPath, features,
                 metadataStage, essentiaStage, meydaStage, wroteOut>>
  /\ UNCHANGED llmVars

\* The ffmpeg conversion ends with 'end' or with 'error'; an error may leave
\* partial output behind.  The continuation starts mm.parseFile.
NormalizeDone(r, event, leftover) ==
  /\ pc[r] = "normalize"
  /\ event = "end" => ~leftover
  /\ LET settled == normalizeAudioFile(event) IN
     IF settled.status = "fulfilled"
     THEN /\ normalizedPath' = [normalizedPath EXCEPT ![r] = settled.path]
          /\ pc' = [pc EXCEPT ![r] = "metadata"]
          /\ metadataStage' = [metadataStage EXCEPT ![r] = "running"]
          /\ UNCHANGED <<inner, innerError, outer, result>>
     ELSE /\ RejectInner(r, NormalizationFailedMessage)
          /\ UNCHANGED <<normalizedPath, metadataStage>>
  /\ normalizeStage' = [normalizeStage EXCEPT ![r] =
        IF event = "end" THEN "ended" ELSE "errored"]
  /\ outFile' = IF event = "end" THEN "complete"
                ELSE IF leftover THEN "partial" ELSE outFile
  /\ wroteOut' = [wroteOut EXCEPT ![r] = (event = "end" \/ leftover)]
  /\ UNCHANGED <<trackOnDisk, essentiaAvailable, features, essentiaStage, meydaStage>>
  /\ UNCHANGED llmVars

\* The file mm.parseFile is given can be read.
Readable(path) == IF path = OutputPath THEN outFile # "none" ELSE trackOnDisk

\* mm.parseFile(normalizedPath) settles.  On success the features object is
\* initialised and the first analyzer is started; on failure the error is
\* rethrown and the run ends.  (A failed parse delivers no tags.)
MetadataDone(r, ok, tags) ==
  /\ pc[r] = "metadata"
  /\ ok => Readable(normalizedPath[r])
  /\ ~ok => tags.bpm = Absent
  /\ IF ok
     THEN /\ features' = [features EXCEPT ![r] =
                 Some([metadata |-> extractBasicMetadata(tags),
                       waveform |-> EmptyWaveform, spectral |-> EmptySpectral,
                       rhythm |-> EmptyRhythm, harmonic |-> EmptyHarmonic])]
          /\ IF essentiaAvailable
             THEN /\ pc' = [pc EXCEPT ![r] = "essentia"]
                  /\ essentiaStage' = [essentiaStage EXCEPT ![r] = "running"]
                  /\ UNCHANGED meydaStage
             ELSE /\ pc' = [pc EXCEPT ![r] = "meyda"]
                  /\ essentiaStage' = [essentiaStage EXCEPT ![r] = "skipped"]
                  /\ meydaStage' = [meydaStage EXCEPT ![r] = "running"]
          /\ UNCHANGED <<inner, innerError, outer, result>>
     ELSE /\ RejectInner(r, MetadataFailedMessage)
          /\ UNCHANGED <<features, essentiaStage, meydaStage>>
  /\ metadataStage' = [metadataStage EXCEPT ![r] = IF ok THEN "returned" ELSE "failed"]
  /\ UNCHANGED <<trackOnDisk, outFile, essentiaAvailable, normalizedPath,
                 normalizeStage, wroteOut>>
  /\ UNCHANGED llmVars

\* extractEssentiaFeatures: its own try/catch turns every exception of the
\* backend into the empty structure, so the promise is always fulfilled.
extractEssentiaFeatures(backendThrows, measurement) ==
  [status |-> "fulfilled",
   value |-> IF backendThrows THEN EmptyAnalysis ELSE measurement]

\* The try/catch around the Essentia call: a fulfilled call is merged into
\* the features, a rejected one is logged and the features stay as they are.
MergeEssentia(feat, call) ==
  IF call.status = "fulfilled"
  THEN [feat EXCEPT !.waveform = Spread(feat.waveform, call.value.waveform),
                    !.spectral = Spread(feat.spectral, call.value.spectral),
                    !.rhythm   = Spread(feat.rhythm, call.value.rhythm),
                    !.harmonic = Spread(feat.harmonic, call.value.harmonic)]
  ELSE feat

\* Variant in which a failed Essentia call makes the run format what it has
\* and return without calling Meyda.
EssentiaDone_ReturnsEarly(r, backendThrows, measurement) ==
  /\ pc[r] = "essentia"
  /\ features' = [features EXCEPT ![r] =
        Some(MergeEssentia(features[r][1],
                           extractEssentiaFeatures(backendThrows, measurement)))]
  /\ essentiaStage' = [essentiaStage EXCEPT ![r] =
        IF backendThrows THEN "failed" ELSE "returned"]
  /\ IF backendThrows
     THEN /\ pc' = [pc EXCEPT ![r] = "done"]
          /\ inner' = [inner EXCEPT ![r] = "fulfilled"]
          /\ SettleOuter(r, ReturnRace(formatFeaturesForFeedback(features[r][1])))
          /\ UNCHANGED meydaStage
     ELSE /\ pc' = [pc EXCEPT ![r] = "meyda"]
          /\ meydaStage' = [meydaStage EXCEPT ![r] = "running"]
          /\ UNCHANGED <<inner, outer, result>>
  /\ UNCHANGED <<trackOnDisk, outFile, essentiaAvailable, normalizedPath,
                 normalizeStage, metadataStage, wroteOut, innerError>>
  /\ UNCHANGED llmVars

\* The Essentia call settles; the continuation merges and starts Meyda.
EssentiaDone(r, backendThrows, measurement) ==
  /\ pc[r] = "essentia"
  /\ features' = [features EXCEPT ![r] =
        Some(MergeEssentia(features[r][1],
                           extractEssentiaFeatures(backendThrows, measurement)))]
  /\ essentiaStage' = [essentiaStage EXCEPT ![r] =
        IF backendThrows THEN "failed" ELSE "returned"]
  /\ meydaStage' = [meydaStage EXCEPT ![r] = "running"]
  /\ pc' = [pc EXCEPT ![r] = "meyda"]
  /\ UNCHANGED <<trackOnDisk, outFile, essentiaAvailable, normalizedPath,
                 normalizeStage, metadataStage, wroteOut, inner, innerError,
                 outer, result>>
  /\ UNCHANGED llmVars

\* extractMeydaFeatures returns the simulated features; the caller's
\* try/catch covers a backend call that throws.
extractMeydaFeatures(backendThrows) ==
  IF backendThrows
  THEN [status |-> "rejected", value |-> MeydaFeatures]
  ELSE [status |-> "fulfilled", value |-> MeydaFeatures]

\* Variant without the catch: a Meyda error leaves the try block of the run.
MergeMeyda_Aborts(feat, call) ==
  IF call.status = "fulfilled"
  THEN [status |-> "continue",
        value |-> [feat EXCEPT !.waveform = Spread(feat.waveform, call.value.waveform),
                               !.spectral = Spread(feat.spectral, call.value.spectral)]]
  ELSE [status |-> "abort", value |-> feat]

\* The try/catch around the Meyda call.  How the run goes on, and with which
\* features: the merged ones, or the features as they were.
MergeMeyda(feat, call) ==
  IF call.status = "fulfilled"
  THEN [status |-> "continue",
        value |-> [feat EXCEPT !.waveform = Spread(feat.waveform, call.value.waveform),
                               !.spectral = Spread(feat.spectral, call.value.spectral)]]
  ELSE [status |-> "continue", value |-> feat]

\* if (normalizedPath !== trackPath) fs.unlinkSync(normalizedPath), errors
\* of the unlink being caught.
CleanUp(path, file) == IF path # TrackPath THEN "none" ELSE file

\* The Meyda call settles; the continuation merges, cleans up the temporary
\* file, formats the features and returns.
MeydaDone(r, backendThrows) ==
  /\ pc[r] = "meyda"
  /\ LET merged == MergeMeyda(features[r][1], extractMeydaFeatures(backendThrows)) IN
     IF merged.status = "continue"
     THEN /\ features' = [features EXCEPT ![r] = Some(merged.value)]
          /\ outFile' = CleanUp(normalizedPath[r], outFile)
          /\ pc' = [pc EXCEPT ![r] = "done"]
          /\ inner' = [inner EXCEPT ![r] = "fulfilled"]
          /\ SettleOuter(r, ReturnRace(formatFeaturesForFeedback(merged.value)))
          /\ UNCHANGED innerError
     ELSE /\ RejectInner(r, "Meyda feature extraction failed")
          /\ UNCHANGED <<features, outFile>>
  /\ meydaStage' = [meydaStage EXCEPT ![r] =
        IF backendThrows THEN "failed" ELSE "returned"]
  /\ UNCHANGED <<trackOnDisk, essentiaAvailable, normalizedPath, normalizeStage,
                 metadataStage, essentiaStage, wroteOut>>
  /\ UNCHANGED llmVars

\* The 25 second timer fires while the race is undecided: timeoutPromise
\* rejects and the catch block answers.  extractFeaturesWithFallbacks is not
\* cancelled and goes on in the background.
Timeout(r) ==
  /\ outer[r] = "racing"
  /\ SettleOuter(r, CatchEnhanced(TimeoutMessage))
  /\ UNCHANGED <<trackOnDisk, outFile, essentiaAvailable, pc, normalizedPath,
                 features, normalizeStage, metadataStage, essentiaStage,
                 meydaStage, wroteOut, inner, innerError>>
  /\ UNCHANGED llmVars

(***************************************************************************)
(* analyzeMusicTrack and the endpoint that awaits it                       *)
(***************************************************************************)
\* The top-level functions each module defines.
DefinedFunctions(module) ==
  IF module = "openaiService"
  THEN {"analyzeMusicTrack", "createFallbackFeedback", "parseFeedbackSections",
        "prepareFeatureSummaryForPrompt", "prepareComparisonSummaryForPrompt"}
  ELSE {"createBasicFeatures", "createFallbackResponse", "analyzeMusicTrack"}

\* createFallbackResponse: a response of the OpenAI shape with canned text.
createFallbackResponse(songFeatures) ==
  [kind |-> "fallback", hasMessage |-> TRUE, hasContent |-> TRUE,
   about |-> songFeatures.kind]

\* The shapes an OpenAI answer can have.
OpenAIAnswers ==
  { [kind |-> "response", hasMessage |-> TRUE, hasContent |-> TRUE],
    [kind |-> "response", hasMessage |-> TRUE, hasContent |-> FALSE],
    [kind |-> "response", hasMessage |-> FALSE, hasContent |-> FALSE] }

\* The validity test each module applies to the answer: enhancedOpenAI asks
\* for choices[0].message, openaiService also for message.content.
ValidAnswer(module, answer) ==
  IF module = "openaiService"
  THEN answer.hasMessage /\ answer.hasContent
  ELSE answer.hasMessage

\* catch (error) of analyzeMusicTrack: return createFallbackResponse(...).
\* Calling a function the module does not define throws a ReferenceError out
\* of the catch block.
CatchAnalyze(module, songFeatures) ==
  IF "createFallbackResponse" \in DefinedFunctions(module)
  THEN [status |-> "fulfilled", value |-> createFallbackResponse(songFeatures)]
  ELSE [status |-> "rejected",
        value |-> [kind |-> "ReferenceError", hasMessage |-> FALSE, hasContent |-> FALSE]]

\* try { feedback = await analyzeMusicTrack(...); res.status(200) }
\* catch { res.status(500) } of POST /api/feedback/immediate.
EndpointStatus(settlement) == IF settlement.status = "fulfilled" THEN 200 ELSE 500

SettleAnalyze(r, cause, settlement) ==
  /\ llmPc' = [llmPc EXCEPT ![r] = "settled"]
  /\ llmCause' = [llmCause EXCEPT ![r] = cause]
  /\ llm' = [llm EXCEPT ![r] = settlement.status]
  /\ llmValue' = [llmValue EXCEPT ![r] = Some(settlement.value)]
  /\ httpStatus' = [httpStatus EXCEPT ![r] = EndpointStatus(settlement)]

\* The endpoint has the features and calls analyzeMusicTrack: the 30 second
\* timer is armed, enhancedOpenAI checks the API key, the prompt is built and
\* the OpenAI request is sent.
StartAnalyze(r) ==
  /\ outer[r] = "fulfilled"
  /\ llmPc[r] = "idle"
  /\ IF llmModule = "enhancedOpenAI" /\ ~apiKeyPresent
     THEN SettleAnalyze(r, "noKey", CatchAnalyze(llmModule, result[r][1]))
     ELSE /\ llmPc' = [llmPc EXCEPT ![r] = "waiting"]
          /\ llm' = [llm EXCEPT ![r] = "pending"]
          /\ UNCHANGED <<llmCause, llmValue, httpStatus>>
  /\ UNCHANGED <<llmModule, apiKeyPresent>>
  /\ UNCHANGED pipelineVars

\* The OpenAI request is answered.
OpenAIAnswered(r, answer) ==
  /\ llmPc[r] = "waiting"
  /\ apiKeyPresent
  /\ IF ValidAnswer(llmModule, answer)
     THEN SettleAnalyze(r, "answered", [status |-> "fulfilled", value |-> answer])
     ELSE SettleAnalyze(r, "invalid", CatchAnalyze(llmModule, result[r][1]))
  /\ UNCHANGED <<llmModule, apiKeyPresent>>
  /\ UNCHANGED pipelineVars

\* The OpenAI request throws (network error, authentication error, ...).
OpenAIThrows(r) ==
  /\ llmPc[r] = "waiting"
  /\ SettleAnalyze(r, "threw", CatchAnalyze(llmModule, result[r][1]))
  /\ UNCHANGED <<llmModule, apiKeyPresent>>
  /\ UNCHANGED pipelineVars

\* The 30 second timer fires before the request is answered.
OpenAITimeout(r) ==
  /\ llmPc[r] = "waiting"
  /\ SettleAnalyze(r, "timeout", CatchAnalyze(llmModule, result[r][1]))
  /\ UNCHANGED <<llmModule, apiKeyPresent>>
  /\ UNCHANGED pipelineVars

(***************************************************************************)
(* Reference comparator                                                    *)
(*                                                                         *)
(* Units: tempo in BPM, loudness and dynamics in tenths, spectral balance  *)
(* and complexity in hundredths.  A quotient the code computes in floating *)
(* point is carried as an exact fraction; where the exact value handed to  *)
(* Math.round lies halfway between two integers, the floating point error *)
(* decides which of the two is returned, and both are possible.            *)
(***************************************************************************)
\* The object literal artistFeatures.
artistFeatures ==
  ("Ben Klock" :> [kind |-> "profile", tempo |-> 132, loudness |-> -120, dynamics |-> 62,
                   spectralBalance |-> 82, complexity |-> 65, key |-> "F minor"]) @@
  ("Marcel Dettmann" :> [kind |-> "profile", tempo |-> 135, loudness |-> -115, dynamics |-> 58,
                         spectralBalance |-> 76, complexity |-> 72, key |-> "C minor"]) @@
  ("Nina Kraviz" :> [kind |-> "profile", tempo |-> 128, loudness |-> -108, dynamics |-> 71,
                     spectralBalance |-> 79, complexity |-> 68, key |-> "G minor"]) @@
  ("Aphex Twin" :> [kind |-> "profile", tempo |-> 125, loudness |-> -142, dynamics |-> 84,
                    spectralBalance |-> 86, complexity |-> 91, key |-> "B minor"]) @@
  ("Four Tet" :> [kind |-> "profile", tempo |-> 122, loudness |-> -131, dynamics |-> 76,
                  spectralBalance |-> 84, complexity |-> 82, key |-> "D minor"]) @@
  ("Jon Hopkins" :> [kind |-> "profile", tempo |-> 118, loudness |-> -127, dynamics |-> 89,
                     spectralBalance |-> 88, complexity |-> 85, key |-> "A minor"]) @@
  ("default" :> [kind |-> "profile", tempo |-> 125, loudness |-> -120, dynamics |-> 70,
                 spectralBalance |-> 80, complexity |-> 70, key |-> "A minor"])

\* Property names every object literal inherits from Object.prototype.
InheritedProperties ==
  {"constructor", "toString", "valueOf", "hasOwnProperty", "isPrototypeOf",
   "propertyIsEnumerable", "toLocaleString", "__proto__"}

\* What such a property evaluates to: a function (or the prototype object),
\* truthy, with none of the fields of a profile.
InheritedValue == [kind |-> "inherited"]

\* artistFeatures[artist]: the own property, else the inherited one, else
\* undefined.
PropertyLookup(artist) ==
  IF artist \in DOMAIN artistFeatures THEN Some(artistFeatures[artist])
  ELSE IF artist \in InheritedProperties THEN Some(InheritedValue)
  ELSE Absent

\* referenceArtists.map(artist => artistFeatures[artist] || artistFeatures['default'])
getReferenceArtistsFeatures(artists) ==
  [i \in 1..Len(artists) |->
     IF PropertyLookup(artists[i]) # Absent THEN PropertyLookup(artists[i])[1]
     ELSE artistFeatures["default"]]

\* Every element is a profile: its fields are numbers.
AllProfiles(referenceFeatures) ==
  \A i \in 1..Len(referenceFeatures) : referenceFeatures[i].kind = "profile"

RECURSIVE SumOf(_, _, _)
\* values.reduce((a, b) => a + b, 0) over the field of the first n elements.
SumOf(referenceFeatures, field, n) ==
  IF n = 0 THEN 0
  ELSE SumOf(referenceFeatures, field, n - 1) + referenceFeatures[n][field]

\* calculateAverage(referenceFeatures.map(r => r[field])): the fraction
\* sum / length, NaN for an empty list (0 / 0) and when an element lacks the
\* field (a sum with undefined).
calculateAverage(referenceFeatures, field) ==
  IF Len(referenceFeatures) = 0 \/ ~AllProfiles(referenceFeatures)
  THEN [nan |-> TRUE, num |-> 0, den |-> 1]
  ELSE [nan |-> FALSE, num |-> SumOf(referenceFeatures, field, Len(referenceFeatures)),
        den |-> Len(referenceFeatures)]

Abs(n) == IF n < 0 THEN 0 - n ELSE n

\* 1 - Math.min(diff, cap) / cap for diff = |value - avg| / |avg| and
\* cap = capNum / capDen, as a fraction between 0 and 1.
Closeness(value, avg, capNum, capDen) ==
  LET diffNum == Abs(avg.den * value - avg.num)
      diffDen == Abs(avg.num)
  IN IF diffNum * capDen >= capNum * diffDen
     THEN [num |-> 0, den |-> 1]
     ELSE [num |-> capNum * diffDen - diffNum * capDen, den |-> capNum * diffDen]

RECURSIVE GeFrac(_, _, _, _)
\* a / b >= c / d for non-negative a, c and positive b, d, by comparing the
\* integer parts and then the reciprocals of the remainders.
GeFrac(a, b, c, d) ==
  IF a \div b # c \div d THEN a \div b > c \div d
  ELSE IF c % d = 0 THEN TRUE
  ELSE IF a % b = 0 THEN FALSE
  ELSE GeFrac(d, c % d, b, a % b)

\* The integer part of the sum of two fractions p and q, each below 1.
CarryOfTwo(p, q) ==
  IF p.num = 0 \/ q.num = 0 THEN 0
  ELSE IF GeFrac(p.num, p.den, q.den - q.num, q.den) THEN 1 ELSE 0

\* Math.floor of the sum of four fractions.
FloorOfSum(f1, f2, f3, f4) ==
  LET frac(f) == [num |-> f.num % f.den, den |-> f.den]
      whole(f) == f.num \div f.den
      pair(p, q) == [num |-> p.num * q.den + q.num * p.den, den |-> p.den * q.den]
      left == pair(frac(f1), frac(f2))
      right == pair(frac(f3), frac(f4))
  IN whole(f1) + whole(f2) + whole(f3) + whole(f4) + whole(left) + whole(right)
     + CarryOfTwo(frac(left), frac(right))

\* The sum of four fractions is an integer.
SumIsWhole(f1, f2, f3, f4) ==
  LET frac(f) == [num |-> f.num % f.den, den |-> f.den]
      pair(p, q) == [num |-> p.num * q.den + q.num * p.den, den |-> p.den * q.den]
      left == frac(pair(frac(f1), frac(f2)))
      right == frac(pair(frac(f3), frac(f4)))
  IN \/ left.num = 0 /\ right.num = 0
     \/ /\ left.num > 0
        /\ right.num > 0
        /\ GeFrac(left.num, left.den, right.den - right.num, right.den)
        /\ GeFrac(right.den - right.num, right.den, left.num, left.den)

\* Math.round(x) for x = n / denominator, where numerator is the integer
\* part of n and exact says that n is whole: Math.floor(x + 0.5), and when
\* x + 0.5 is exactly an integer, that integer or the one below it.
Round(numerator, denominator, exact, halfUp) ==
  LET up == (2 * numerator + denominator) \div (2 * denominator)
      halfway == exact /\ (2 * numerator + denominator) % (2 * denominator) = 0
  IN IF halfway /\ ~halfUp THEN up - 1 ELSE up
\* The result of a computation on numbers: a number or NaN.
Number(n) == [nan |-> FALSE, value |-> n]

NaN == [nan |-> TRUE, value |-> 0]

\* A dimension of the track enters a score when
\* trackFeatures[dimension] && trackFeatures[dimension].value holds.
Available(track, dimension) == Truthy(track[dimension])

\* Variant with the tolerance cap 0.5 for the loudness as well.
calculateSimilarityScore_LoudnessCapHalf(track, referenceFeatures, halfUp) ==
  LET doubled(dimension, field, capNum, capDen) ==
        IF Available(track, dimension)
        THEN LET c == Closeness(track[dimension][1],
                                calculateAverage(referenceFeatures, field), capNum, capDen)
             IN [num |-> 200 * c.num, den |-> c.den]
        ELSE [num |-> 0, den |-> 1]
      count == Cardinality({d \in {"tempo", "loudness", "dynamics", "mixBalance"} :
                              Available(track, d)})
  IN IF count = 0 THEN Number(50)
     ELSE IF Len(referenceFeatures) = 0 \/ ~AllProfiles(referenceFeatures) THEN NaN
     ELSE Number(Round(FloorOfSum(doubled("tempo", "tempo", 1, 2),
                                  doubled("loudness", "loudness", 1, 2),
                                  doubled("dynamics", "dynamics", 1, 2),
                                  doubled("mixBalance", "spectralBalance", 1, 2)),
                       2 * count,
                       SumIsWhole(doubled("tempo", "tempo", 1, 2),
                                  doubled("loudness", "loudness", 1, 2),
                                  doubled("dynamics", "dynamics", 1, 2),
                                  doubled("mixBalance", "spectralBalance", 1, 2)),
                       halfUp))

\* score / totalWeight * 100, rounded, for the dimensions that are available:
\* each gives 25 * closeness points, with the tolerance cap 0.5 for tempo,
\* dynamics and balance and 0.3 for loudness; 50 when none is available.
calculateSimilarityScore(track, referenceFeatures, halfUp) ==
  LET doubled(dimension, field, capNum, capDen) ==
        IF Available(track, dimension)
        THEN LET c == Closeness(track[dimension][1],
                                calculateAverage(referenceFeatures, field), capNum, capDen)
             IN [num |-> 200 * c.num, den |-> c.den]
        ELSE [num |-> 0, den |-> 1]
      count == Cardinality({d \in {"tempo", "loudness", "dynamics", "mixBalance"} :
                              Available(track, d)})
  IN IF count = 0 THEN Number(50)
     ELSE IF Len(referenceFeatures) = 0 \/ ~AllProfiles(referenceFeatures) THEN NaN
     ELSE \* x = score / totalWeight * 100 is half the sum of the four over count
          Number(Round(FloorOfSum(doubled("tempo", "tempo", 1, 2),
                                  doubled("loudness", "loudness", 3, 10),
                                  doubled("dynamics", "dynamics", 1, 2),
                                  doubled("mixBalance", "spectralBalance", 1, 2)),
                       2 * count,
                       SumIsWhole(doubled("tempo", "tempo", 1, 2),
                                  doubled("loudness", "loudness", 3, 10),
                                  doubled("dynamics", "dynamics", 1, 2),
                                  doubled("mixBalance", "spectralBalance", 1, 2)),
                       halfUp))

\* The similarity of the track with one reference profile before the
\* division by count: the sum of the closeness in tempo and in loudness, as
\* a fraction.  NaN when the element has no profile fields and a dimension
\* is available.
SimilarityWith(track, refFeature) ==
  LET single(field) == [nan |-> FALSE, num |-> refFeature[field], den |-> 1]
      t == IF Available(track, "tempo")
           THEN Closeness(track.tempo[1], single("tempo"), 1, 2)
           ELSE [num |-> 0, den |-> 1]
      l == IF Available(track, "loudness")
           THEN Closeness(track.loudness[1], single("loudness"), 3, 10)
           ELSE [num |-> 0, den |-> 1]
  IN IF ~Available(track, "tempo") /\ ~Available(track, "loudness")
     THEN [nan |-> FALSE, num |-> 0, den |-> 1]
     ELSE IF refFeature.kind # "profile" THEN [nan |-> TRUE, num |-> 0, den |-> 1]
     ELSE [nan |-> FALSE, num |-> t.num * l.den + l.num * t.den, den |-> t.den * l.den]
\* Variant of the test that lets a later artist with an equal score win.
Exceeds_OrEquals(similarity, closest) ==
  /\ ~similarity.nan
  /\ \/ closest.num < 0
     \/ GeFrac(similarity.num, similarity.den, closest.num, closest.den)

\* score > closestScore, false for a NaN score; closestScore starts at -1.
Exceeds(similarity, closest) ==
  /\ ~similarity.nan
  /\ \/ closest.num < 0
     \/ ~GeFrac(closest.num, closest.den, similarity.num, similarity.den)

RECURSIVE ClosestAmong(_, _, _, _)
\* closestArtist and closestScore after the first n rounds of the forEach.
ClosestAmong(track, referenceFeatures, artists, n) ==
  IF n = 0 THEN [artist |-> Absent, num |-> 0 - 1, den |-> 1]
  ELSE LET closest == ClosestAmong(track, referenceFeatures, artists, n - 1)
           similarity == SimilarityWith(track, referenceFeatures[n])
       IN IF Exceeds(similarity, closest)
          THEN [artist |-> Some(artists[n]), num |-> similarity.num, den |-> similarity.den]
          ELSE closest

\* { artist: closestArtist, score: Math.round(closestScore * 100) }; the
\* artist is null (absent) when no score exceeded -1.
getClosestMatch(track, referenceFeatures, artists, halfUp) ==
  LET closest == ClosestAmong(track, referenceFeatures, artists, Len(referenceFeatures))
      count == Cardinality({d \in {"tempo", "loudness"} : Available(track, d)})
  IN [artist |-> closest.artist,
      score |-> IF closest.num < 0 THEN 0 - 100
                ELSE IF count = 0 THEN 0
                ELSE Round(100 * closest.num, closest.den * count, TRUE, halfUp)]

\* One of the delta metrics of compareWithReferenceTracks: null (absent)
\* without the dimension, else the value, the reference average and their
\* difference.
DeltaMetric(track, dimension, referenceFeatures) ==
  IF track[dimension] = Absent THEN Absent
  ELSE LET avg == calculateAverage(referenceFeatures, dimension) IN
       Some([value |-> track[dimension][1],
             reference_avg |-> avg,
             delta |-> [nan |-> avg.nan,
                        num |-> avg.den * track[dimension][1] - avg.num,
                        den |-> avg.den]])

\* The promise compareWithReferenceTracks returns.
compareWithReferenceTracks(track, artists, scoreHalfUp, matchHalfUp) ==
  LET referenceFeatures == getReferenceArtistsFeatures(artists) IN
  [status |-> "fulfilled",
   value |-> [tempo |-> DeltaMetric(track, "tempo", referenceFeatures),
              loudness |-> DeltaMetric(track, "loudness", referenceFeatures),
              dynamics |-> DeltaMetric(track, "dynamics", referenceFeatures),
              similarity_score |-> calculateSimilarityScore(track, referenceFeatures, scoreHalfUp),
              closest_match |-> getClosestMatch(track, referenceFeatures, artists, matchHalfUp)]]

(***************************************************************************)
(* Calls of the describer and of the reference comparator on their own     *)
(***************************************************************************)
VARIABLES
  bpm,               \* the argument of a describeTempo call, optional
  tempoDescription,  \* what that call returned, "" before it
  referenceArtists,  \* the artist names a comparison is asked for
  trackFeatures,     \* the track record handed to the comparator
  comparison         \* what compareWithReferenceTracks resolved with, optional

describeVars == <<bpm, tempoDescription>>

compareVars == <<referenceArtists, trackFeatures, comparison>>

\* No describer call and no comparison is under way.
ToolsIdle ==
  /\ bpm = Absent
  /\ tempoDescription = ""
  /\ referenceArtists = << >>
  /\ trackFeatures = << >>
  /\ comparison = Absent

(***************************************************************************)
(* The track queue: queueTrackAnalysis, the in-memory queue and the Redis  *)
(* queue processor                                                         *)
(***************************************************************************)
\* The jobs queued; each call of queueTrackAnalysis makes its own uuid.
Jobs == {"job1", "job2", "job3"}

VARIABLES
  startup,                \* "connecting" until the connect() of the constructor settles
  isConnected,            \* RedisManager.isConnected, what isReady() returns
  memoryQueue,            \* the array memoryQueue, ids of the jobs in it
  trackQueue,             \* the Redis list 'track_queue', its left end first
  jobStatus,              \* per job: status of the job object or stored job, "none" before
  queueCall,              \* per job: position of queueTrackAnalysis
  queueReply,             \* per job: what queueTrackAnalysis returned, optional
  passes,                 \* per job: calls of processNextInMemoryQueue awaiting on it
  redisProcessorRunning,  \* the flag of startRedisQueueProcessor
  processorPc,            \* "stopped", "popping", "sleeping" or "processing"
  processorJob,           \* the id lPop delivered, "" for null
  passesLogged,           \* per job: times 'Processing job ... from memory queue' was logged
  shiftedBy,              \* per job: the job of the pass whose shift() removed it, "" before
  pushed,                 \* ids in the order of 'Job ... added to Redis queue'
  taken                   \* ids in the order of 'Processing job ... from Redis queue'

queueVars ==
  <<startup, isConnected, memoryQueue, trackQueue, jobStatus, queueCall, queueReply,
    passes, redisProcessorRunning, processorPc, processorJob, passesLogged,
    shiftedBy, pushed, taken>>

\* The module has been loaded: nothing is queued, the processor is not
\* running and the client is connecting.
QueueIdle ==
  /\ startup = "connecting"
  /\ isConnected = FALSE
  /\ memoryQueue = << >>
  /\ trackQueue = << >>
  /\ jobStatus = [j \in Jobs |-> "none"]
  /\ queueCall = [j \in Jobs |-> "notCalled"]
  /\ queueReply = [j \in Jobs |-> Absent]
  /\ passes = [j \in Jobs |-> 0]
  /\ redisProcessorRunning = FALSE
  /\ processorPc = "stopped"
  /\ processorJob = ""
  /\ passesLogged = [j \in Jobs |-> 0]
  /\ shiftedBy = [j \in Jobs |-> ""]
  /\ pushed = << >>
  /\ taken = << >>

\* The object queueTrackAnalysis returns after queueing.
QueuedReply(jobId, ready) ==
  [jobId |-> jobId, status |-> "queued",
   message |-> IF ready THEN "Track queued for analysis with Redis"
               ELSE "Track queued for analysis (using in-memory queue)"]

\* processNextInMemoryQueue up to its first await: with a job at the head of
\* the queue it marks that job 'processing' and starts extracting.
processNextInMemoryQueue(queue, status, awaiting, logged) ==
  IF queue = << >>
  THEN [status |-> status, passes |-> awaiting, logged |-> logged]
  ELSE [status |-> [status EXCEPT ![Head(queue)] = "processing"],
        passes |-> [awaiting EXCEPT ![Head(queue)] = @ + 1],
        logged |-> [logged EXCEPT ![Head(queue)] = @ + 1]]

\* queueTrackAnalysis with isReady() false: the job is pushed,
\* processNextInMemoryQueue is called and the reply is returned, all
\* without an await.
QueueInMemory(j) ==
  /\ queueCall[j] = "notCalled"
  /\ ~isConnected
  /\ memoryQueue' = Append(memoryQueue, j)
  /\ LET begun == processNextInMemoryQueue(Append(memoryQueue, j),
                                           [jobStatus EXCEPT ![j] = "queued"],
                                           passes, passesLogged) IN
       /\ jobStatus' = begun.status
       /\ passes' = begun.passes
       /\ passesLogged' = begun.logged
  /\ queueReply' = [queueReply EXCEPT ![j] = Some(QueuedReply(j, isConnected))]
  /\ queueCall' = [queueCall EXCEPT ![j] = "returned"]
  /\ UNCHANGED <<startup, isConnected, trackQueue, redisProcessorRunning,
                 processorPc, processorJob, shiftedBy, pushed, taken>>

\* Variant that does not call itself after the shift.
PassDone_StopsAfterShift(j, outcome) ==
  /\ passes[j] > 0
  /\ memoryQueue' = IF memoryQueue = << >> THEN << >> ELSE Tail(memoryQueue)
  /\ shiftedBy' = IF memoryQueue = << >> THEN shiftedBy
                  ELSE [shiftedBy EXCEPT ![Head(memoryQueue)] = j]
  /\ jobStatus' = [jobStatus EXCEPT ![j] = outcome]
  /\ passes' = [passes EXCEPT ![j] = @ - 1]
  /\ UNCHANGED <<startup, isConnected, trackQueue, queueCall, queueReply,
                 redisProcessorRunning, processorPc, processorJob, pushed, taken,
                 passesLogged>>

\* A pass of processNextInMemoryQueue on job j gets its features and its
\* feedback, or an error: it sets the status, shifts the queue and calls
\* itself when the queue is not empty.
PassDone(j, outcome) ==
  /\ passes[j] > 0
  /\ memoryQueue' = IF memoryQueue = << >> THEN << >> ELSE Tail(memoryQueue)
  /\ shiftedBy' = IF memoryQueue = << >> THEN shiftedBy
                  ELSE [shiftedBy EXCEPT ![Head(memoryQueue)] = j]
  /\ LET begun == processNextInMemoryQueue(
                     IF memoryQueue = << >> THEN << >> ELSE Tail(memoryQueue),
                     [jobStatus EXCEPT ![j] = outcome],
                     [passes EXCEPT ![j] = @ - 1], passesLogged) IN
       /\ jobStatus' = begun.status
       /\ passes' = begun.passes
       /\ passesLogged' = begun.logged
  /\ UNCHANGED <<startup, isConnected, trackQueue, queueCall, queueReply,
                 redisProcessorRunning, processorPc, processorJob, pushed, taken>>

\* The head of the while loop of startRedisQueueProcessor: with isReady()
\* it sends lPop, which Redis serves in the order of the commands sent;
\* without, the finally block stops the processor.
LoopHead(ready, list, order) ==
  IF ~ready
  THEN [running |-> FALSE, pc |-> "stopped", job |-> "", list |-> list, order |-> order]
  ELSE IF list = << >>
  THEN [running |-> TRUE, pc |-> "popping", job |-> "", list |-> list, order |-> order]
  ELSE [running |-> TRUE, pc |-> "popping", job |-> Head(list), list |-> Tail(list),
        order |-> Append(order, Head(list))]

\* addToList(key, value) with addToLeft defaulting to true: lPush.
addToList(list, value) == <<value>> \o list

\* queueTrackAnalysis with isReady() true, up to its first await: the job is
\* stored under job:<id>.
QueueViaRedis(j) ==
  /\ queueCall[j] = "notCalled"
  /\ isConnected
  /\ jobStatus' = [jobStatus EXCEPT ![j] = "queued"]
  /\ queueCall' = [queueCall EXCEPT ![j] = "set"]
  /\ UNCHANGED <<startup, isConnected, memoryQueue, trackQueue, queueReply, passes,
                 redisProcessorRunning, processorPc, processorJob, passesLogged,
                 shiftedBy, pushed, taken>>

\* The set has settled and addToList is called.  With the connection lost
\* in between addToList calls connect() first, which sets the flag when it
\* succeeds; when it fails the error is caught and nothing is added.
RedisSetDone(j, reconnects) ==
  /\ queueCall[j] = "set"
  /\ isConnected => reconnects
  /\ isConnected' = reconnects
  /\ trackQueue' = IF reconnects THEN addToList(trackQueue, j) ELSE trackQueue
  /\ pushed' = IF reconnects THEN Append(pushed, j) ELSE pushed
  /\ queueCall' = [queueCall EXCEPT ![j] = "add"]
  /\ UNCHANGED <<startup, memoryQueue, jobStatus, queueReply, passes,
                 redisProcessorRunning, processorPc, processorJob, passesLogged,
                 shiftedBy, taken>>

\* addToList has settled: startRedisQueueProcessor is called, which returns
\* at once when the processor is running and else runs to its first await,
\* and the reply is returned.
RedisAddDone(j) ==
  /\ queueCall[j] = "add"
  /\ IF redisProcessorRunning
     THEN UNCHANGED <<redisProcessorRunning, processorPc, processorJob, trackQueue, taken>>
     ELSE LET head == LoopHead(isConnected, trackQueue, taken) IN
            /\ redisProcessorRunning' = head.running
            /\ processorPc' = head.pc
            /\ processorJob' = head.job
            /\ trackQueue' = head.list
            /\ taken' = head.order
  /\ queueReply' = [queueReply EXCEPT ![j] = Some(QueuedReply(j, isConnected))]
  /\ queueCall' = [queueCall EXCEPT ![j] = "returned"]
  /\ UNCHANGED <<startup, isConnected, memoryQueue, jobStatus, passes, passesLogged,
                 shiftedBy, pushed>>

\* lPop has answered: with null the processor sleeps a second, with an id
\* it marks the job 'processing' and starts extracting.
ProcessorPopped ==
  /\ processorPc = "popping"
  /\ IF processorJob = ""
     THEN /\ processorPc' = "sleeping"
          /\ UNCHANGED jobStatus
     ELSE /\ processorPc' = "processing"
          /\ jobStatus' = [jobStatus EXCEPT ![processorJob] = "processing"]
  /\ UNCHANGED <<startup, isConnected, memoryQueue, trackQueue, queueCall, queueReply,
                 passes, redisProcessorRunning, processorJob, passesLogged,
                 shiftedBy, pushed, taken>>

\* The second of sleep is over, or the job has been processed and its
\* status stored: the loop goes round.
ProcessorLoops(outcome) ==
  /\ \/ processorPc = "sleeping" /\ outcome = "none"
     \/ processorPc = "processing" /\ outcome # "none"
  /\ jobStatus' = IF outcome = "none" THEN jobStatus
                  ELSE [jobStatus EXCEPT ![processorJob] = outcome]
  /\ LET head == LoopHead(isConnected, trackQueue, taken) IN
       /\ redisProcessorRunning' = head.running
       /\ processorPc' = head.pc
       /\ processorJob' = head.job
       /\ trackQueue' = head.list
       /\ taken' = head.order
  /\ UNCHANGED <<startup, isConnected, memoryQueue, queueCall, queueReply, passes,
                 passesLogged, shiftedBy, pushed>>

\* The connect() the constructor started settles: the flag is set on
\* success and cleared on failure.
StartupConnectDone(ok) ==
  /\ startup = "connecting"
  /\ startup' = "done"
  /\ isConnected' = ok
  /\ UNCHANGED <<memoryQueue, trackQueue, jobStatus, queueCall, queueReply, passes,
                 redisProcessorRunning, processorPc, processorJob, passesLogged,
                 shiftedBy, pushed, taken>>

\* The client emits 'connect' (it has reconnected), or 'error' or 'end':
\* the handlers set and clear the flag.
RedisEvent(event) ==
  /\ startup = "done"
  /\ isConnected' = (event = "connect")
  /\ isConnected' # isConnected
  /\ UNCHANGED <<startup, memoryQueue, trackQueue, jobStatus, queueCall, queueReply,
                 passes, redisProcessorRunning, processorPc, processorJob,
                 passesLogged, shiftedBy, pushed, taken>>

(***************************************************************************)
(* POST /api/feedback, immediate processing                                *)
(***************************************************************************)
\* Requests in progress at the same time; each has its own res and timer.
Requests == {"req1", "req2", "req3"}

VARIABLES
  feedbackPc,       \* per request: "idle", "processing", "returned" or "rejected"
  analysisTimeout,  \* per request: the 40 second timer: "none", "armed", "fired", "cleared"
  res               \* per request: headersSent and the bodies written to the client

feedbackVars == <<feedbackPc, analysisTimeout, res>>

FeedbackIdle ==
  /\ feedbackPc = [q \in Requests |-> "idle"]
  /\ analysisTimeout = [q \in Requests |-> "none"]
  /\ res = [q \in Requests |-> [headersSent |-> FALSE, sent |-> << >>]]

\* Variant of the response object that writes whenever it is asked to.
json_WritesAgain(response, body) ==
  [threw |-> FALSE,
   res |-> [headersSent |-> TRUE, sent |-> Append(response.sent, body)]]

\* res.status(code).json(body): the response is written and headersSent
\* becomes true; on a response already sent setting the header throws
\* ERR_HTTP_HEADERS_SENT and nothing is written.
json(response, body) ==
  IF response.headersSent
  THEN [threw |-> TRUE, res |-> response]
  ELSE [threw |-> FALSE,
        res |-> [headersSent |-> TRUE, sent |-> Append(response.sent, body)]]

\* queueTrackAnalysis has thrown: the handler arms the timer and awaits the
\* analysis.
StartImmediate(q) ==
  /\ feedbackPc[q] = "idle"
  /\ feedbackPc' = [feedbackPc EXCEPT ![q] = "processing"]
  /\ analysisTimeout' = [analysisTimeout EXCEPT ![q] = "armed"]
  /\ UNCHANGED res

\* The timer fires: its callback answers 500 unless headers were sent.
AnalysisTimeoutFires(q) ==
  /\ analysisTimeout[q] = "armed"
  /\ analysisTimeout' = [analysisTimeout EXCEPT ![q] = "fired"]
  /\ res' = [res EXCEPT ![q] = IF res[q].headersSent THEN res[q]
                                ELSE json(res[q], "Analysis timed out").res]
  /\ UNCHANGED feedbackPc

\* Both awaits of the analysis are fulfilled: the timer is cleared and the
\* feedback is returned unless headers were sent.
ProcessingSucceeds(q) ==
  /\ feedbackPc[q] = "processing"
  /\ analysisTimeout' = [analysisTimeout EXCEPT ![q] =
        IF analysisTimeout[q] = "armed" THEN "cleared" ELSE analysisTimeout[q]]
  /\ res' = [res EXCEPT ![q] = IF res[q].headersSent THEN res[q]
                                ELSE json(res[q], "Track processed successfully").res]
  /\ feedbackPc' = [feedbackPc EXCEPT ![q] = "returned"]

\* One of the awaits rejects: the inner catch answers 500 without looking
\* at headersSent and without clearing the timer.  When that throws, the
\* outer catch answers 500 in the same way, and when that throws too the
\* promise of the handler is rejected.
ProcessingFails(q) ==
  /\ feedbackPc[q] = "processing"
  /\ LET inner500 == json(res[q], "Error analyzing track")
         outer500 == json(inner500.res, "Error processing feedback") IN
       /\ res' = [res EXCEPT ![q] = IF inner500.threw THEN outer500.res ELSE inner500.res]
       /\ feedbackPc' = [feedbackPc EXCEPT ![q] =
             IF inner500.threw /\ outer500.threw THEN "rejected" ELSE "returned"]
  /\ UNCHANGED analysisTimeout

(***************************************************************************)
(* analyzeMusicTrack: the timeout promise created at entry                 *)
(***************************************************************************)
\* Calls of analyzeMusicTrack whose timers are armed at the same time.
Calls == {"call1", "call2", "call3"}

VARIABLES
  analyzePc,       \* per call: "idle", "extracting", "racing" or "returned"
  timeoutPromise,  \* per call: "none", "pending" or "rejected"
  raceHandler      \* per call: Promise.race has attached its handlers to timeoutPromise

timerVars == <<analyzePc, timeoutPromise, raceHandler>>

TimerIdle ==
  /\ analyzePc = [c \in Calls |-> "idle"]
  /\ timeoutPromise = [c \in Calls |-> "none"]
  /\ raceHandler = [c \in Calls |-> FALSE]

\* The try block from the prompt to the await of the race: an exception
\* while the prompt is built leaves it for the catch block, which returns
\* the fallback; otherwise the request is sent and Promise.race subscribes
\* to both promises.
BuildPromptAndRace(c, promptThrows) ==
  IF promptThrows
  THEN /\ analyzePc' = [analyzePc EXCEPT ![c] = "returned"]
       /\ UNCHANGED raceHandler
  ELSE /\ analyzePc' = [analyzePc EXCEPT ![c] = "racing"]
       /\ raceHandler' = [raceHandler EXCEPT ![c] = TRUE]

\* analyzeMusicTrack is called: timeoutPromise is created and its 30 second
\* timer armed.  enhancedOpenAI throws when the API key is missing;
\* openaiService awaits the extraction when it was given no features.
EnterAnalyze(c, hasFeatures, promptThrows) ==
  /\ analyzePc[c] = "idle"
  /\ timeoutPromise' = [timeoutPromise EXCEPT ![c] = "pending"]
  /\ IF llmModule = "enhancedOpenAI" /\ ~apiKeyPresent
     THEN /\ analyzePc' = [analyzePc EXCEPT ![c] = "returned"]
          /\ UNCHANGED raceHandler
     ELSE IF llmModule = "openaiService" /\ ~hasFeatures
     THEN /\ analyzePc' = [analyzePc EXCEPT ![c] = "extracting"]
          /\ UNCHANGED raceHandler
     ELSE BuildPromptAndRace(c, promptThrows)

\* extractEnhancedAudioFeatures has returned, within its own 25 seconds.
ExtractionReturned(c, promptThrows) ==
  /\ analyzePc[c] = "extracting"
  /\ BuildPromptAndRace(c, promptThrows)
  /\ UNCHANGED timeoutPromise

\* openaiPromise settles first: analyzeMusicTrack returns the response or
\* the fallback.  The timer is not cleared.
OpenAISettlesFirst(c) ==
  /\ analyzePc[c] = "racing"
  /\ timeoutPromise[c] = "pending"
  /\ analyzePc' = [analyzePc EXCEPT ![c] = "returned"]
  /\ UNCHANGED <<timeoutPromise, raceHandler>>

\* The 30 second timer fires and rejects timeoutPromise; a race still
\* undecided is lost to it and the catch block returns the fallback.
TimeoutPromiseRejects(c) ==
  /\ timeoutPromise[c] = "pending"
  /\ analyzePc[c] # "extracting"
  /\ timeoutPromise' = [timeoutPromise EXCEPT ![c] = "rejected"]
  /\ analyzePc' = [analyzePc EXCEPT ![c] = "returned"]
  /\ UNCHANGED raceHandler

(***************************************************************************)
(* generateFeedback of the serverless analyze-track function               *)
(***************************************************************************)
\* Invocations of the function running at the same time.
Invocations == {"inv1", "inv2"}

maxAttempts == 3

VARIABLES
  generatePc,   \* per invocation: "idle", "calling", "waiting" or "settled"
  attempts,     \* per invocation: the local attempts
  requests,     \* per invocation: calls of openai.chat.completions.create made
  backoffs,     \* per invocation: the delays slept between attempts, in ms
  generated     \* per invocation: how generateFeedback settled, optional

generateVars == <<generatePc, attempts, requests, backoffs, generated>>

GenerateIdle ==
  /\ generatePc = [i \in Invocations |-> "idle"]
  /\ attempts = [i \in Invocations |-> 0]
  /\ requests = [i \in Invocations |-> 0]
  /\ backoffs = [i \in Invocations |-> << >>]
  /\ generated = [i \in Invocations |-> Absent]

\* What the OpenAI call can be fulfilled with: a completion with content,
\* or one without choices[0].message (generateFeedback does not look).
Completions ==
  { [kind |-> "response", hasMessage |-> TRUE, hasContent |-> TRUE],
    [kind |-> "response", hasMessage |-> FALSE, hasContent |-> FALSE] }

\* The object the catch block of generateFeedback returns.
FallbackCompletion == [kind |-> "fallback", hasMessage |-> TRUE, hasContent |-> TRUE]

\* generateFeedback is called.  Building the prompt throws when
\* referenceArtists has no length or no join; otherwise the first request
\* is sent, raced against a 25 second timer.
GenerateFeedback(i, promptThrows) ==
  /\ generatePc[i] = "idle"
  /\ IF promptThrows
     THEN /\ generatePc' = [generatePc EXCEPT ![i] = "settled"]
          /\ generated' = [generated EXCEPT ![i] =
                Some([status |-> "fulfilled", value |-> FallbackCompletion])]
          /\ UNCHANGED requests
     ELSE /\ generatePc' = [generatePc EXCEPT ![i] = "calling"]
          /\ requests' = [requests EXCEPT ![i] = @ + 1]
          /\ UNCHANGED generated
  /\ UNCHANGED <<attempts, backoffs>>

\* The request is answered before the 25 seconds are over: the loop is
\* left and the response returned.
AttemptSucceeds(i, completion) ==
  /\ generatePc[i] = "calling"
  /\ generatePc' = [generatePc EXCEPT ![i] = "settled"]
  /\ generated' = [generated EXCEPT ![i] =
        Some([status |-> "fulfilled", value |-> completion])]
  /\ UNCHANGED <<attempts, requests, backoffs>>

\* Variant that gives up only when attempts exceeds maxAttempts.
AttemptFails_OneMore(i) ==
  /\ generatePc[i] = "calling"
  /\ attempts' = [attempts EXCEPT ![i] = @ + 1]
  /\ IF attempts[i] + 1 > maxAttempts
     THEN /\ generatePc' = [generatePc EXCEPT ![i] = "settled"]
          /\ generated' = [generated EXCEPT ![i] =
                Some([status |-> "fulfilled", value |-> FallbackCompletion])]
          /\ UNCHANGED backoffs
     ELSE /\ generatePc' = [generatePc EXCEPT ![i] = "waiting"]
          /\ backoffs' = [backoffs EXCEPT ![i] = Append(@, 2000 * (attempts[i] + 1))]
          /\ UNCHANGED generated
  /\ UNCHANGED requests

\* The request throws or the 25 second timer wins the race: attempts is
\* incremented; at maxAttempts the error is rethrown and the outer catch
\* returns the fallback, before that the loop sleeps 2000 * attempts ms.
AttemptFails(i) ==
  /\ generatePc[i] = "calling"
  /\ attempts' = [attempts EXCEPT ![i] = @ + 1]
  /\ IF attempts[i] + 1 >= maxAttempts
     THEN /\ generatePc' = [generatePc EXCEPT ![i] = "settled"]
          /\ generated' = [generated EXCEPT ![i] =
                Some([status |-> "fulfilled", value |-> FallbackCompletion])]
          /\ UNCHANGED backoffs
     ELSE /\ generatePc' = [generatePc EXCEPT ![i] = "waiting"]
          /\ backoffs' = [backoffs EXCEPT ![i] = Append(@, 2000 * (attempts[i] + 1))]
          /\ UNCHANGED generated
  /\ UNCHANGED requests

\* The sleep is over and the while loop sends the next request.
BackoffOver(i) ==
  /\ generatePc[i] = "waiting"
  /\ generatePc' = [generatePc EXCEPT ![i] = "calling"]
  /\ requests' = [requests EXCEPT ![i] = @ + 1]
  /\ UNCHANGED <<attempts, backoffs, generated>>

(***************************************************************************)
(* The client: App, TrackUploader and FeedbackDisplay                      *)
(***************************************************************************)
\* Uploads whose fetch can be awaiting its response at the same time.
MaxFetches == 2

\* error.message of what handleSubmit catches: the message thrown for a
\* response that is not ok, and the one of a fetch that rejects.
UploadErrors == {"Failed to analyze track", "Failed to fetch"}

\* Bodies of an ok response, by the section they carry.
FeedbackData == {"analysis", "technicalInsights"}

VARIABLES
  feedback,           \* App: the feedback state, optional
  loading,            \* App: the loading state
  error,              \* App: the error state, optional
  activeStep,         \* App: 0 'Upload Track', 1 'Analyzing', 2 'Feedback'
  selectedFile,       \* TrackUploader: a file is selected
  uploadError,        \* TrackUploader: its own error text
  fetches,            \* handleSubmit calls awaiting their fetch
  showJoke,           \* FeedbackDisplay state
  showRealFeedback,   \* FeedbackDisplay state
  processingTimeout,  \* FeedbackDisplay state
  jokeTimer,          \* FeedbackDisplay: the 4 second timer is pending
  timeoutTimer,       \* FeedbackDisplay: the 30 second timer is pending
  feedbackTimer       \* FeedbackDisplay: the timer of the feedback effect is pending

clientVars ==
  <<feedback, loading, error, activeStep, selectedFile, uploadError, fetches,
    showJoke, showRealFeedback, processingTimeout, jokeTimer, timeoutTimer,
    feedbackTimer>>

\* The initial state of App and of a TrackUploader that has just mounted;
\* FeedbackDisplay is not mounted.
ClientIdle ==
  /\ feedback = Absent
  /\ loading = FALSE
  /\ error = Absent
  /\ activeStep = 0
  /\ selectedFile = FALSE
  /\ uploadError = ""
  /\ fetches = 0
  /\ showJoke = TRUE
  /\ showRealFeedback = FALSE
  /\ processingTimeout = FALSE
  /\ jokeTimer = FALSE
  /\ timeoutTimer = FALSE
  /\ feedbackTimer = FALSE

\* What FeedbackDisplay renders below the joke: the ternary chain inside
\* the block guarded by (showRealFeedback || feedback).
RealFeedbackPanel ==
  IF activeStep = 0 THEN "unmounted"
  ELSE IF ~(showRealFeedback \/ feedback # Absent) THEN "hidden"
  ELSE IF loading /\ feedback = Absent THEN "spinner"
  ELSE IF error # Absent THEN "error"
  ELSE IF feedback # Absent THEN "feedback"
  ELSE "empty"

\* A button wired to onReset is on the screen: 'Cancel and try again' on
\* the spinner once processingTimeout is set, 'Try Again' on the error,
\* 'Analyze Another Track' on the feedback.
ResetOffered ==
  \/ RealFeedbackPanel = "spinner" /\ processingTimeout
  \/ RealFeedbackPanel \in {"error", "feedback"}

\* The files a user can pick or drop.
Files == {"audio", "wrongType", "tooLarge"}

\* handleFileChange / handleDrop of the mounted TrackUploader.
validateAndSetFile(file) ==
  /\ activeStep = 0
  /\ IF file = "wrongType"
     THEN uploadError' = "Please upload an audio file (MP3, WAV, AIFF, or FLAC)"
          /\ UNCHANGED selectedFile
     ELSE IF file = "tooLarge"
     THEN uploadError' = "File size exceeds 20MB limit"
          /\ UNCHANGED selectedFile
     ELSE selectedFile' = TRUE /\ uploadError' = ""
  /\ UNCHANGED <<feedback, loading, error, activeStep, fetches, showJoke,
                 showRealFeedback, processingTimeout, jokeTimer, timeoutTimer,
                 feedbackTimer>>

\* handleSubmit up to its fetch.  onUploadStart is App.handleUploadStart:
\* loading and step 1, which unmounts TrackUploader and mounts
\* FeedbackDisplay, whose effect on [loading, feedback] starts both timers.
handleSubmit ==
  /\ activeStep = 0
  /\ IF ~selectedFile
     THEN /\ uploadError' = "Please select a track to upload"
          /\ UNCHANGED <<feedback, loading, error, activeStep, selectedFile,
                         fetches, showJoke, showRealFeedback, processingTimeout,
                         jokeTimer, timeoutTimer, feedbackTimer>>
     ELSE /\ fetches < MaxFetches
          /\ fetches' = fetches + 1
          /\ loading' = TRUE
          /\ activeStep' = 1
          /\ showJoke' = TRUE
          /\ showRealFeedback' = FALSE
          /\ processingTimeout' = FALSE
          /\ jokeTimer' = (feedback = Absent)
          /\ timeoutTimer' = (feedback = Absent)
          /\ UNCHANGED <<feedback, error, selectedFile, uploadError, feedbackTimer>>

\* The fetch rejects or its response is not ok: the catch block of
\* handleSubmit.  Its own setIsUploading and setError reach a TrackUploader
\* that is no longer mounted; onError is App's setError and nothing else.
UploadFails(message) ==
  /\ fetches > 0
  /\ fetches' = fetches - 1
  /\ error' = Some(message)
  /\ UNCHANGED <<feedback, loading, activeStep, selectedFile, uploadError,
                 showJoke, showRealFeedback, processingTimeout, jokeTimer,
                 timeoutTimer, feedbackTimer>>

\* The response is ok: onFeedbackReceived is App.handleFeedbackReceived.
\* FeedbackDisplay (mounted now if it was not) runs both effects: the
\* pending timers are cleared, the joke timer of the feedback effect starts.
UploadSucceeds(data) ==
  /\ fetches > 0
  /\ fetches' = fetches - 1
  /\ feedback' = Some(data)
  /\ loading' = FALSE
  /\ activeStep' = 2
  /\ showJoke' = FALSE
  /\ showRealFeedback' = TRUE
  /\ processingTimeout' = FALSE
  /\ jokeTimer' = FALSE
  /\ timeoutTimer' = FALSE
  /\ feedbackTimer' = TRUE
  /\ selectedFile' = FALSE
  /\ uploadError' = ""
  /\ UNCHANGED error

\* After 4 seconds of loading the joke gives way to the real panel.
JokeTimerFires ==
  /\ jokeTimer
  /\ jokeTimer' = FALSE
  /\ showJoke' = FALSE
  /\ showRealFeedback' = TRUE
  /\ UNCHANGED <<feedback, loading, error, activeStep, selectedFile, uploadError,
                 fetches, processingTimeout, timeoutTimer, feedbackTimer>>

\* After 30 seconds of loading.
TimeoutTimerFires ==
  /\ timeoutTimer
  /\ timeoutTimer' = FALSE
  /\ processingTimeout' = TRUE
  /\ UNCHANGED <<feedback, loading, error, activeStep, selectedFile, uploadError,
                 fetches, showJoke, showRealFeedback, jokeTimer, feedbackTimer>>

\* The timer of the effect on [feedback].
FeedbackTimerFires ==
  /\ feedbackTimer
  /\ feedbackTimer' = FALSE
  /\ showJoke' = FALSE
  /\ UNCHANGED <<feedback, loading, error, activeStep, selectedFile, uploadError,
                 fetches, showRealFeedback, processingTimeout, jokeTimer,
                 timeoutTimer>>

\* A button wired to onReset is pressed: App.handleReset.  FeedbackDisplay
\* unmounts (its cleanups clear the timers) and a new TrackUploader mounts.
handleReset ==
  /\ ResetOffered
  /\ feedback' = Absent
  /\ loading' = FALSE
  /\ error' = Absent
  /\ activeStep' = 0
  /\ selectedFile' = FALSE
  /\ uploadError' = ""
  /\ showJoke' = TRUE
  /\ showRealFeedback' = FALSE
  /\ processingTimeout' = FALSE
  /\ jokeTimer' = FALSE
  /\ timeoutTimer' = FALSE
  /\ feedbackTimer' = FALSE
  /\ UNCHANGED fetches

\* The variables of the services that take no part in a pipeline run.
serviceVars == <<queueVars, feedbackVars, timerVars, generateVars, clientVars>>

ServicesIdle ==
  QueueIdle /\ FeedbackIdle /\ TimerIdle /\ GenerateIdle /\ ClientIdle

(***************************************************************************)
(* Specification of one request                                            *)
(***************************************************************************)
vars == <<pipelineVars, llmVars, describeVars, compareVars, serviceVars>>

\* No run has been started and no request has been made.
RunsIdle ==
  /\ outFile = "none"
  /\ pc = [r \in Runs |-> "idle"]
  /\ normalizedPath = [r \in Runs |-> ""]
  /\ features = [r \in Runs |-> Absent]
  /\ normalizeStage = [r \in Runs |-> "notStarted"]
  /\ metadataStage = [r \in Runs |-> "notStarted"]
  /\ essentiaStage = [r \in Runs |-> "notStarted"]
  /\ meydaStage = [r \in Runs |-> "notStarted"]
  /\ wroteOut = [r \in Runs |-> FALSE]
  /\ inner = [r \in Runs |-> "none"]
  /\ innerError = [r \in Runs |-> ""]
  /\ outer = [r \in Runs |-> "none"]
  /\ result = [r \in Runs |-> Absent]
  /\ llmPc = [r \in Runs |-> "idle"]
  /\ llmCause = [r \in Runs |-> "none"]
  /\ llm = [r \in Runs |-> "none"]
  /\ llmValue = [r \in Runs |-> Absent]
  /\ httpStatus = [r \in Runs |-> 0]

Init ==
  /\ trackOnDisk \in BOOLEAN
  /\ essentiaAvailable \in BOOLEAN
  /\ llmModule \in {"openaiService", "enhancedOpenAI"}
  /\ apiKeyPresent \in BOOLEAN
  /\ RunsIdle
  /\ ToolsIdle
  /\ ServicesIdle

PipelineStep(r) ==
  \/ StartRun(r)
  \/ \E event \in {"end", "error"}, leftover \in BOOLEAN :
        NormalizeDone(r, event, leftover)
  \/ \E ok \in BOOLEAN, tags \in MetadataTags : MetadataDone(r, ok, tags)
  \/ \E backendThrows \in BOOLEAN, measurement \in EssentiaMeasurements :
        EssentiaDone(r, backendThrows, measurement)
  \/ \E backendThrows \in BOOLEAN : MeydaDone(r, backendThrows)
  \/ Timeout(r)

AnalyzeStep(r) ==
  \/ StartAnalyze(r)
  \/ \E answer \in OpenAIAnswers : OpenAIAnswered(r, answer)
  \/ OpenAIThrows(r)
  \/ OpenAITimeout(r)

Next ==
  /\ \E r \in SingleRun : PipelineStep(r) \/ AnalyzeStep(r)
  /\ UNCHANGED <<describeVars, compareVars, serviceVars>>

Spec == Init /\ [][Next]_vars

(***************************************************************************)
(* Specification of two runs on the same track path                        *)
(***************************************************************************)
\* Two calls of extractEnhancedAudioFeatures are made with the same track
\* path (the worker and the endpoint given the same upload, or two uploads
\* named by the same Date.now()) and their awaits interleave.
InitTwoRuns ==
  /\ trackOnDisk \in BOOLEAN
  /\ essentiaAvailable \in BOOLEAN
  /\ llmModule = "openaiService"
  /\ apiKeyPresent = TRUE
  /\ RunsIdle
  /\ ToolsIdle
  /\ ServicesIdle

NextTwoRuns ==
  /\ \E r \in Runs : PipelineStep(r)
  /\ UNCHANGED <<llmVars, describeVars, compareVars, serviceVars>>

SpecTwoRuns == InitTwoRuns /\ [][NextTwoRuns]_vars

(***************************************************************************)
(* Specification of a describeTempo call                                   *)
(***************************************************************************)
\* The largest tempo describeTempo is called with.
MaxTempo == 200

\* describeTempo is called with a tempo, with 0 or with undefined.
InitDescribe ==
  /\ trackOnDisk = TRUE
  /\ essentiaAvailable = TRUE
  /\ llmModule = "openaiService"
  /\ apiKeyPresent = TRUE
  /\ RunsIdle
  /\ bpm \in {Absent} \cup {Some(n) : n \in 0..MaxTempo}
  /\ tempoDescription = ""
  /\ referenceArtists = << >>
  /\ trackFeatures = << >>
  /\ comparison = Absent
  /\ ServicesIdle

DescribeTempoCall ==
  /\ tempoDescription = ""
  /\ tempoDescription' = describeTempo(bpm)
  /\ UNCHANGED <<bpm, compareVars, pipelineVars, llmVars, serviceVars>>

NextDescribe == DescribeTempoCall

SpecDescribe == InitDescribe /\ [][NextDescribe]_vars

(***************************************************************************)
(* Specification of a comparison with reference artists                    *)
(***************************************************************************)
\* Names a request can carry: two of the table, two the client offers that
\* the table does not have, and one that is a property of every object.
ArtistNames == {"Ben Klock", "Aphex Twin", "Bonobo", "Burial", "constructor"}

\* The largest number of reference artists in a request.
MaxArtists == 2

\* The worker compares only when referenceArtists.length > 0.
ArtistLists == UNION {[1..n -> ArtistNames] : n \in 1..MaxArtists}

\* Track records: each dimension missing or with a value, among them the
\* values of Ben Klock's profile, the values at the tolerance cap from it
\* (tempo 66, loudness -15.6, dynamics 3.1, balance 0.41) and a tempo of 0.
TrackInputs ==
  [tempo      : {Absent, Some(0), Some(66), Some(125), Some(132)},
   loudness   : {Absent, Some(0 - 120), Some(0 - 156), Some(0 - 100)},
   dynamics   : {Absent, Some(62), Some(31)},
   mixBalance : {Absent, Some(82), Some(41)}]

InitCompare ==
  /\ trackOnDisk = TRUE
  /\ essentiaAvailable = TRUE
  /\ llmModule = "openaiService"
  /\ apiKeyPresent = TRUE
  /\ RunsIdle
  /\ bpm = Absent
  /\ tempoDescription = ""
  /\ referenceArtists \in ArtistLists
  /\ trackFeatures \in TrackInputs
  /\ comparison = Absent
  /\ ServicesIdle

\* The worker awaits compareWithReferenceTracks(features, referenceArtists).
\* The parameters say how Math.round comes out where the exact value lies
\* halfway, for the similarity score and for the score of the closest match.
CompareCall(scoreHalfUp, matchHalfUp) ==
  /\ comparison = Absent
  /\ Len(referenceArtists) > 0
  /\ comparison' = Some(compareWithReferenceTracks(trackFeatures, referenceArtists,
                                                   scoreHalfUp, matchHalfUp))
  /\ UNCHANGED <<referenceArtists, trackFeatures, describeVars, pipelineVars, llmVars,
                 serviceVars>>

NextCompare ==
  \E scoreHalfUp \in BOOLEAN, matchHalfUp \in BOOLEAN :
    CompareCall(scoreHalfUp, matchHalfUp)

SpecCompare == InitCompare /\ [][NextCompare]_vars

(***************************************************************************)
(* Specification of the track queue                                        *)
(***************************************************************************)
InitQueue ==
  /\ trackOnDisk = TRUE
  /\ essentiaAvailable \in BOOLEAN
  /\ llmModule = "enhancedOpenAI"
  /\ apiKeyPresent = TRUE
  /\ RunsIdle
  /\ ToolsIdle
  /\ ServicesIdle

NextQueue ==
  /\ \/ \E j \in Jobs : QueueInMemory(j)
     \/ \E j \in Jobs, outcome \in {"completed", "failed"} : PassDone(j, outcome)
     \/ \E j \in Jobs : QueueViaRedis(j)
     \/ \E j \in Jobs, reconnects \in BOOLEAN : RedisSetDone(j, reconnects)
     \/ \E j \in Jobs : RedisAddDone(j)
     \/ ProcessorPopped
     \/ \E outcome \in {"none", "completed", "failed"} : ProcessorLoops(outcome)
     \/ \E ok \in BOOLEAN : StartupConnectDone(ok)
     \/ \E event \in {"connect", "error", "end"} : RedisEvent(event)
  /\ UNCHANGED <<pipelineVars, llmVars, describeVars, compareVars, feedbackVars,
                 timerVars, generateVars, clientVars>>

SpecQueue == InitQueue /\ [][NextQueue]_vars

\* Every extraction and every feedback call settles (metadata parsing and
\* the analyzers answer or throw, the feedback call has its own timeout), so
\* each pass of processNextInMemoryQueue goes on after its awaits.
SpecQueueFair ==
  SpecQueue /\ \A j \in Jobs : WF_queueVars(\E outcome \in {"completed", "failed"} : PassDone(j, outcome))

(***************************************************************************)
(* Specification of POST /api/feedback, immediate processing               *)
(***************************************************************************)
InitFeedback ==
  /\ trackOnDisk = TRUE
  /\ essentiaAvailable = TRUE
  /\ llmModule = "openaiService"
  /\ apiKeyPresent = TRUE
  /\ RunsIdle
  /\ ToolsIdle
  /\ ServicesIdle

NextFeedback ==
  /\ \E q \in Requests :
       \/ StartImmediate(q)
       \/ AnalysisTimeoutFires(q)
       \/ ProcessingSucceeds(q)
       \/ ProcessingFails(q)
  /\ UNCHANGED <<pipelineVars, llmVars, describeVars, compareVars, queueVars,
                 timerVars, generateVars, clientVars>>

SpecFeedback == InitFeedback /\ [][NextFeedback]_vars

(***************************************************************************)
(* Specification of the timeout promise of analyzeMusicTrack               *)
(***************************************************************************)
InitTimer ==
  /\ trackOnDisk = TRUE
  /\ essentiaAvailable = TRUE
  /\ llmModule \in {"openaiService", "enhancedOpenAI"}
  /\ apiKeyPresent \in BOOLEAN
  /\ RunsIdle
  /\ ToolsIdle
  /\ ServicesIdle

NextTimer ==
  /\ \E c \in Calls :
       \/ \E hasFeatures \in BOOLEAN, promptThrows \in BOOLEAN :
            EnterAnalyze(c, hasFeatures, promptThrows)
       \/ \E promptThrows \in BOOLEAN : ExtractionReturned(c, promptThrows)
       \/ OpenAISettlesFirst(c)
       \/ TimeoutPromiseRejects(c)
  /\ UNCHANGED <<pipelineVars, llmVars, describeVars, compareVars, queueVars,
                 feedbackVars, generateVars, clientVars>>

SpecTimer == InitTimer /\ [][NextTimer]_vars

(***************************************************************************)
(* Specification of generateFeedback                                       *)
(***************************************************************************)
InitGenerate ==
  /\ trackOnDisk = TRUE
  /\ essentiaAvailable = TRUE
  /\ llmModule = "openaiService"
  /\ apiKeyPresent = TRUE
  /\ RunsIdle
  /\ ToolsIdle
  /\ ServicesIdle

NextGenerate ==
  /\ \E i \in Invocations :
       \/ \E promptThrows \in BOOLEAN : GenerateFeedback(i, promptThrows)
       \/ \E completion \in Completions : AttemptSucceeds(i, completion)
       \/ AttemptFails(i)
       \/ BackoffOver(i)
  /\ UNCHANGED <<pipelineVars, llmVars, describeVars, compareVars, queueVars,
                 feedbackVars, timerVars, clientVars>>

SpecGenerate == InitGenerate /\ [][NextGenerate]_vars

\* Each request is answered, throws or is cut off by its 25 second timer,
\* and each sleep ends.
SpecGenerateFair ==
  SpecGenerate
    /\ \A i \in Invocations :
         /\ WF_generateVars(AttemptFails(i)
                             \/ \E completion \in Completions : AttemptSucceeds(i, completion))
         /\ WF_generateVars(BackoffOver(i))

(***************************************************************************)
(* Specification of the client                                             *)
(***************************************************************************)
InitClient ==
  /\ trackOnDisk = TRUE
  /\ essentiaAvailable = TRUE
  /\ llmModule = "openaiService"
  /\ apiKeyPresent = TRUE
  /\ RunsIdle
  /\ ToolsIdle
  /\ ServicesIdle

NextClient ==
  /\ \/ \E file \in Files : validateAndSetFile(file)
     \/ handleSubmit
     \/ \E message \in UploadErrors : UploadFails(message)
     \/ \E data \in FeedbackData : UploadSucceeds(data)
     \/ JokeTimerFires
     \/ TimeoutTimerFires
     \/ FeedbackTimerFires
     \/ handleReset
  /\ UNCHANGED <<pipelineVars, llmVars, describeVars, compareVars, queueVars,
                 feedbackVars, timerVars, generateVars>>

SpecClient == InitClient /\ [][NextClient]_vars

\* Every fetch settles and every pending timer fires; pressing a button is
\* left to the user.
SpecClientFair ==
  SpecClient
    /\ WF_clientVars(\/ \E message \in UploadErrors : UploadFails(message)
                     \/ \E data \in FeedbackData : UploadSucceeds(data))
    /\ WF_clientVars(JokeTimerFires)
    /\ WF_clientVars(TimeoutTimerFires)
    /\ WF_clientVars(FeedbackTimerFires)

(***************************************************************************)
(* Properties                                                              *)
(***************************************************************************)
TimedOutText == "Analysis timed out - using default features"

\* The run r was answered by the timeout branch of the catch block.
AnsweredByTimeout(r) ==
  /\ outer[r] = "fulfilled"
  /\ result[r][1].kind = "default"
  /\ result[r][1].error = TimedOutText

\* C1: extractEnhancedAudioFeatures never rejects, whatever the track path
\* and whatever normalization, metadata parsing and the analyzers do: once
\* extractFeaturesWithFallbacks has rejected the call is fulfilled, and it is
\* fulfilled either with the formatted record or with the default record
\* {tempo: 120, key: 'Unknown', energy: 0.5, dynamics: 6}.
C1_NeverRejects ==
  \A r \in Runs :
    /\ outer[r] \in {"none", "racing", "fulfilled"}
    /\ inner[r] = "rejected" => outer[r] = "fulfilled"
    /\ outer[r] = "fulfilled" =>
         \/ result[r][1].kind = "formatted"
         \/ /\ result[r][1].kind = "default"
            /\ result[r][1].tempo = 120
            /\ result[r][1].key = "Unknown"
            /\ result[r][1].energy = 50
            /\ result[r][1].dynamics = 6

\* A run whose metadata could not be parsed has thrown inside and has been
\* answered with the default record.
C1_Witness ==
  /\ metadataStage["r1"] = "failed"
  /\ inner["r1"] = "rejected"
  /\ outer["r1"] = "fulfilled"
  /\ result["r1"][1].kind = "default"
  /\ result["r1"][1].error = WrapError(MetadataFailedMessage)

\* The keys under which a record can carry each of the eight dimensions.
DimensionKeys ==
  [tempo      |-> {"tempo"},
   key        |-> {"key", "harmonic"},
   loudness   |-> {"loudness"},
   dynamics   |-> {"dynamics", "dynamicRange"},
   spectral   |-> {"mixBalance", "spectral", "spectralBalance"},
   energy     |-> {"energy"},
   complexity |-> {"complexity"},
   mood       |-> {"mood"}]

HasDimension(record, dimension) ==
  \E k \in DimensionKeys[dimension] : k \in DOMAIN record /\ record[k] # Absent

\* C2: every record the pipeline returns has all eight dimensions present
\* and non-null.
C2_AllDimensionsPresent ==
  \A r \in Runs :
    outer[r] = "fulfilled" =>
      \A dimension \in DOMAIN DimensionKeys : HasDimension(result[r][1], dimension)

\* C3: once a run has ended (it has answered its caller and
\* extractFeaturesWithFallbacks has returned or thrown), no normalized file
\* written by that run remains on disk.
C3_TempFileDeleted ==
  \A r \in Runs :
    (outer[r] = "fulfilled" /\ pc[r] \in {"done", "failed"} /\ wroteOut[r])
      => outFile = "none"

\* C4: when the OpenAI call throws, answers without choices[0].message or
\* does not answer in time, analyzeMusicTrack is fulfilled with the canned
\* fallback and the endpoint that awaits it does not answer with an error.
C4_LLMFailureGivesFallback ==
  \A r \in Runs :
    llmCause[r] \in {"threw", "invalid", "timeout"} =>
      /\ llm[r] = "fulfilled"
      /\ llmValue[r][1].kind = "fallback"
      /\ httpStatus[r] = 200

\* C5 as stated: a run ends with an error reported to the caller exactly
\* when the source file is missing: on a missing file the call is rejected
\* instead of returning a record, and no other run is rejected.
C5_MissingFileIsReported ==
  \A r \in Runs :
    outer[r] \in {"fulfilled", "rejected"} => (outer[r] = "rejected" <=> ~trackOnDisk)

\* C5 amended: no failure reaches the caller as an error, the missing file
\* included.  A missing file rejects extractFeaturesWithFallbacks with the
\* 'Audio file not found' error, and extractEnhancedAudioFeatures answers it
\* with the default record whose error field carries that message; that
\* message is reported for no other run.
C5_MissingFileGivesDefault ==
  \A r \in Runs :
    /\ outer[r] # "rejected"
    /\ (pc[r] # "idle" /\ ~trackOnDisk) =>
         /\ inner[r] = "rejected"
         /\ innerError[r] = WrapError(NotFoundMessage)
         /\ outer[r] = "fulfilled"
         /\ result[r] = Some(DefaultRecord(WrapError(NotFoundMessage)))
    /\ (outer[r] = "fulfilled" /\ trackOnDisk /\ result[r][1].kind = "default") =>
         result[r][1].error # WrapError(NotFoundMessage)

\* The call on a missing file has returned the default record naming the
\* missing file.
C5_Witness ==
  /\ ~trackOnDisk
  /\ outer["r1"] = "fulfilled"
  /\ result["r1"][1].error = WrapError(NotFoundMessage)

\* The step in which the 25 second timer decides the race of run r.
TimeoutStep(r) ==
  /\ outer[r] = "racing"
  /\ outer'[r] # "racing"
  /\ inner'[r] = "pending"

\* C6 as stated: when the deadline fires before extraction has finished, the
\* call returns the fixed default record only if no stage had completed by
\* then, and otherwise a partial record with the features measured so far.
C6_TimeoutReturnsPartial ==
  [][\A r \in Runs :
        TimeoutStep(r) =>
          (result'[r][1].kind = "default" <=> pc[r] = "normalize")]_vars

\* C6 amended: when the deadline fires before extraction has finished, the
\* call returns at the deadline with the fixed default record (error
\* 'Analysis timed out - using default features'), whatever stages had
\* completed by then; nothing measured so far is part of it.
C6_TimeoutReturnsDefault ==
  [][\A r \in Runs :
        TimeoutStep(r) =>
          /\ outer'[r] = "fulfilled"
          /\ result'[r] = Some(DefaultRecord(TimedOutText))]_vars

\* The deadline has fired after metadata and Essentia features had been
\* gathered, and the call has returned the default record.
C6_Witness ==
  /\ AnsweredByTimeout("r1")
  /\ inner["r1"] = "pending"
  /\ pc["r1"] = "meyda"
  /\ essentiaStage["r1"] = "returned"
  /\ Truthy(features["r1"][1].rhythm.bpm)

\* C7: no analyzer failure aborts a run.  With Essentia unavailable or
\* failed the run goes on to Meyda; once the Meyda stage has returned or
\* failed the run has completed, and unless the deadline answered first the
\* caller has the formatted record built from the metadata and from what
\* the analyzers delivered, not the default error record.
C7_AnalyzerFailureDoesNotAbort ==
  \A r \in Runs :
    /\ essentiaStage[r] \in {"skipped", "failed"} => pc[r] \in {"meyda", "done"}
    /\ meydaStage[r] \in {"returned", "failed"} =>
         /\ pc[r] = "done"
         /\ inner[r] = "fulfilled"
         /\ innerError[r] = ""
         /\ outer[r] = "fulfilled"
         /\ \/ AnsweredByTimeout(r)
            \/ /\ result[r] = Some(formatFeaturesForFeedback(features[r][1]))
               /\ result[r][1].title = features[r][1].metadata.title

\* Both analyzers have failed and the caller has the formatted record.
C7_Witness ==
  /\ essentiaStage["r1"] = "failed"
  /\ meydaStage["r1"] = "failed"
  /\ outer["r1"] = "fulfilled"
  /\ result["r1"][1].kind = "formatted"

\* C8: a failure to read the metadata never aborts a run: the run goes on
\* to the signal analyzers with a minimal metadata record.
C8_MetadataFailureDoesNotAbort ==
  \A r \in Runs :
    metadataStage[r] = "failed" =>
      /\ pc[r] \in {"essentia", "meyda", "done"}
      /\ inner[r] # "rejected"
      /\ features[r] # Absent

\* C9: normalizeAudioFile never rejects.  After the 'error' event the run
\* holds the original path, after the 'end' event the normalized path; in
\* both cases the run has gone on to metadata extraction, and from there,
\* when the metadata was read, to the analyzers.  No run is ever rejected
\* with a normalization failure.
C9_NormalizeNeverRejects ==
  \A r \in Runs :
    /\ innerError[r] # WrapError(NormalizationFailedMessage)
    /\ normalizeStage[r] = "errored" =>
         normalizedPath[r] = TrackPath /\ metadataStage[r] # "notStarted"
    /\ normalizeStage[r] = "ended" =>
         normalizedPath[r] = OutputPath /\ metadataStage[r] # "notStarted"
    /\ (normalizeStage[r] \in {"errored", "ended"} /\ metadataStage[r] = "returned") =>
         \/ essentiaStage[r] = "running"
         \/ meydaStage[r] # "notStarted"

\* The conversion has failed and the run has completed on the original file.
C9_Witness ==
  /\ normalizeStage["r1"] = "errored"
  /\ normalizedPath["r1"] = TrackPath
  /\ pc["r1"] = "done"
  /\ result["r1"][1].kind = "formatted"

\* C10: the analyzers are independent tasks: while one analyzer is still
\* running the other one has already been started, so that a slow or hanging
\* analyzer does not hold back the start of the other.
C10_AnalyzersIndependent ==
  \A r \in Runs :
    essentiaStage[r] = "running" => meydaStage[r] # "notStarted"

\* The run r is in progress.
InProgress(r) == pc[r] \in {"normalize", "metadata", "essentia", "meyda"}

\* The normalized temporary file the run r is working on, optional: the file
\* its ffmpeg writes while it normalizes, afterwards the file it reads and
\* will delete, unless it fell back to the original track.
TempFileOf(r) ==
  IF pc[r] = "normalize" THEN Some(OutputPath)
  ELSE IF InProgress(r) /\ normalizedPath[r] # TrackPath THEN Some(normalizedPath[r])
  ELSE Absent

\* C11: no two runs that are in progress at the same time work on the same
\* normalized temporary file, two runs on the same track path included: the
\* name of the temporary file is unique per run.
C11_TempFileUniquePerRun ==
  \A r1 \in Runs, r2 \in Runs :
    (r1 # r2 /\ TempFileOf(r1) # Absent) => TempFileOf(r1) # TempFileOf(r2)

\* The aggregator has been invoked in run r: formatFeaturesForFeedback is
\* called in the return statement of extractFeaturesWithFallbacks only.
AggregatorInvoked(r) == inner[r] = "fulfilled"

\* C12: in every run the aggregator is invoked only after the Essentia stage
\* and the Meyda stage have each returned or failed (an Essentia stage the
\* run skips because the backend is unavailable has nothing outstanding),
\* and it is invoked also when one or both of them failed: as soon as the
\* Meyda stage, the last one, has returned or failed.
C12_AggregatorAfterAnalyzers ==
  \A r \in Runs :
    /\ AggregatorInvoked(r) =>
         /\ essentiaStage[r] \in {"returned", "failed", "skipped"}
         /\ meydaStage[r] \in {"returned", "failed"}
    /\ meydaStage[r] \in {"returned", "failed"} => AggregatorInvoked(r)
    /\ essentiaStage[r] \in {"notStarted", "running"} => meydaStage[r] = "notStarted"

\* Essentia has returned, Meyda has failed, and the aggregator has built the
\* record the caller has.
C12_Witness ==
  /\ essentiaStage["r1"] = "returned"
  /\ meydaStage["r1"] = "failed"
  /\ AggregatorInvoked("r1")
  /\ result["r1"] = Some(formatFeaturesForFeedback(features["r1"][1]))

\* The run r has handed its caller the formatted record of its features.
ReturnedFormatted(r) ==
  /\ outer[r] = "fulfilled"
  /\ result[r][1].kind = "formatted"

\* The three tiers of the merge rule: the measured value when there is one,
\* else the declared one, else the default.
Resolve(measured, declared, default) ==
  IF measured # Absent THEN measured[1]
  ELSE IF declared # Absent THEN declared[1]
  ELSE default

\* C13: in the formatted record every dimension is the analyzer-measured
\* value when one was measured, whatever its numeric value (0 included),
\* else the metadata-declared value when present, else the fixed default
\* (tempo 120, key 'Unknown', loudness -14); a measured value is never
\* replaced by a lower tier.
C13_ThreeTierMerge ==
  \A r \in Runs :
    ReturnedFormatted(r) =>
      /\ result[r][1].tempo.value =
           Resolve(features[r][1].rhythm.bpm, features[r][1].metadata.bpm, 120)
      /\ result[r][1].loudness.value =
           Resolve(features[r][1].waveform.loudness, Absent, -14)
      /\ result[r][1].harmonic.key = "Unknown" <=> features[r][1].harmonic.key = Absent

\* The arithmetic mean of those of spectral contrast, dynamic range and
\* 1 - spectral flatness that are present, 0.5 when none is; in
\* six-hundredths like the complexity score.
MeanOfPresent(feat) ==
  LET c == feat.spectral.contrast
      d == feat.waveform.dynamicRange
      f == feat.spectral.flatness
      sum == (IF c # Absent THEN c[1] ELSE 0) + (IF d # Absent THEN d[1] ELSE 0)
             + (IF f # Absent THEN 100 - f[1] ELSE 0)
      count == (IF c # Absent THEN 1 ELSE 0) + (IF d # Absent THEN 1 ELSE 0)
               + (IF f # Absent THEN 1 ELSE 0)
  IN IF count > 0 THEN (sum * 6) \div count ELSE 300

\* C14: the complexity score of a record is the arithmetic mean of those of
\* {spectral contrast, dynamic range, 1 - spectral flatness} that are
\* present, lies in [0,1], and is 0.5 when none of the three is present.
C14_ComplexityIsMean ==
  \A r \in Runs :
    ReturnedFormatted(r) =>
      /\ result[r][1].complexity.value = MeanOfPresent(features[r][1])
      /\ result[r][1].complexity.value \in 0..600

\* The six labels of the mood table.
MoodLabels ==
  {"Energetic and sophisticated", "Energetic and straightforward",
   "Balanced and nuanced", "Smooth and accessible",
   "Atmospheric and intricate", "Calm and minimal"}

\* The mood table applied to the primitives a record reports: its tempo
\* value, its dynamics value and its mix balance value.
MoodOfRecord(record) ==
  deriveMood([rhythm   |-> [bpm |-> Some(record.tempo.value)],
              waveform |-> [dynamicRange |-> Some(record.dynamics.value)],
              spectral |-> [contrast |-> Some(record.mixBalance.value)]])

\* C15: the mood of every formatted record is one of the six labels and is
\* the lookup applied to the record's own resolved primitives: the energy
\* tier of the tempo value the record reports crossed with the complexity
\* tier of the dynamics and contrast values it reports.
C15_MoodOfOwnPrimitives ==
  \A r \in Runs :
    ReturnedFormatted(r) =>
      /\ result[r][1].mood \in MoodLabels
      /\ result[r][1].mood = MoodOfRecord(result[r][1])

\* C16: in every formatted record the description of each dimension is the
\* band the threshold table assigns to the value the same record reports for
\* that dimension, whether that value was measured or defaulted (so that
\* equal values always carry equal descriptions).
C16_DescriptionMatchesValue ==
  \A r \in Runs :
    ReturnedFormatted(r) =>
      /\ result[r][1].tempo.description =
           describeTempo(Some(result[r][1].tempo.value))
      /\ result[r][1].loudness.description =
           describeLoudness(Some(result[r][1].loudness.value))
      /\ result[r][1].dynamics.description =
           describeDynamics(Some(result[r][1].dynamics.value))
      /\ result[r][1].mixBalance.description =
           describeSpectralBalance(Some(result[r][1].mixBalance.value))

ExpectedProfile(artist) ==
  IF artist \in DOMAIN artistFeatures THEN artistFeatures[artist]
  ELSE artistFeatures["default"]

\* C18: for every non-empty list of artist names getReferenceArtistsFeatures
\* returns one profile per name in input order, the known profile for a name
\* of the table and the 'default' profile for every other name, and
\* compareWithReferenceTracks then resolves with a full result: a numeric
\* similarity_score and a closest_match that names an artist.
C18_EveryNameHasProfile ==
  /\ Len(referenceArtists) > 0 =>
       /\ Len(getReferenceArtistsFeatures(referenceArtists)) = Len(referenceArtists)
       /\ \A i \in 1..Len(referenceArtists) :
            getReferenceArtistsFeatures(referenceArtists)[i]
              = ExpectedProfile(referenceArtists[i])
  /\ comparison # Absent =>
       /\ comparison[1].status = "fulfilled"
       /\ ~comparison[1].value.similarity_score.nan
       /\ comparison[1].value.closest_match.artist # Absent

\* The field of a reference profile a dimension of the track is compared with.
ReferenceField ==
  [tempo |-> "tempo", loudness |-> "loudness", dynamics |-> "dynamics",
   mixBalance |-> "spectralBalance"]

\* The tolerance cap of each dimension, as numerator and denominator.
ToleranceCap ==
  [tempo |-> <<1, 2>>, loudness |-> <<3, 10>>, dynamics |-> <<1, 2>>,
   mixBalance |-> <<1, 2>>]

\* The profiles the comparison is made with.
ReferenceFeatures == getReferenceArtistsFeatures(referenceArtists)

\* The sum of a dimension over the reference profiles: their average times
\* their number.
ReferenceSum(dimension) ==
  SumOf(ReferenceFeatures, ReferenceField[dimension], Len(ReferenceFeatures))

\* The value of the dimension in the track equals the reference average.
EqualsAverage(dimension) ==
  Len(ReferenceFeatures) * trackFeatures[dimension][1] = ReferenceSum(dimension)

\* The relative difference |value - average| / |average| of the dimension is
\* at its tolerance cap.
AtToleranceCap(dimension) ==
  ToleranceCap[dimension][2]
      * Abs(Len(ReferenceFeatures) * trackFeatures[dimension][1] - ReferenceSum(dimension))
    = ToleranceCap[dimension][1] * Abs(ReferenceSum(dimension))

\* C19: for every track and every non-empty list of reference profiles the
\* similarity score lies within 0..100; it is 100 when the track has an
\* available dimension and every available one equals the reference average;
\* it is 0 when each of the four dimensions is available with its relative
\* difference at its tolerance cap (tempo 0.5, loudness 0.3, dynamics 0.5,
\* balance 0.5).
C19_SimilarityScoreRange ==
  (comparison # Absent /\ AllProfiles(ReferenceFeatures)) =>
    LET score == comparison[1].value.similarity_score
        available == {d \in DOMAIN ReferenceField : Available(trackFeatures, d)}
    IN /\ ~score.nan
       /\ score.value \in 0..100
       /\ (available # {} /\ \A d \in available : EqualsAverage(d)) => score.value = 100
       /\ (available = DOMAIN ReferenceField /\ \A d \in available : AtToleranceCap(d))
            => score.value = 0

\* A track at the tolerance cap from Ben Klock's profile in all four
\* dimensions has been compared with it and has the score 0.
C19_Witness ==
  /\ referenceArtists = <<"Ben Klock">>
  /\ trackFeatures = [tempo |-> Some(66), loudness |-> Some(0 - 156),
                      dynamics |-> Some(31), mixBalance |-> Some(41)]
  /\ \A d \in DOMAIN ReferenceField : AtToleranceCap(d)
  /\ comparison # Absent
  /\ comparison[1].value.similarity_score = Number(0)

\* The similarity of the track with the profile at an index is at least the
\* similarity with the profile at every index of the list.
HighestSimilarity(index) ==
  \A other \in 1..Len(ReferenceFeatures) :
    LET mine == SimilarityWith(trackFeatures, ReferenceFeatures[index])
        theirs == SimilarityWith(trackFeatures, ReferenceFeatures[other])
    IN GeFrac(mine.num, mine.den, theirs.num, theirs.den)

\* C20: for every track and every non-empty list of reference profiles the
\* closest match names the artist whose profile has the highest mean
\* similarity with the track over the available ones of tempo and loudness,
\* and of several artists with that highest similarity the one that comes
\* first in the list.
C20_ClosestMatchIsFirstBest ==
  (comparison # Absent /\ AllProfiles(ReferenceFeatures)) =>
    \E index \in 1..Len(referenceArtists) :
      /\ HighestSimilarity(index)
      /\ \A earlier \in 1..(index - 1) : ~HighestSimilarity(earlier)
      /\ comparison[1].value.closest_match.artist = Some(referenceArtists[index])

\* A track with a tempo has been compared with two artists of different
\* names whose profiles are equally similar to it, and the first is named.
C20_Witness ==
  /\ referenceArtists = <<"Bonobo", "Burial">>
  /\ Available(trackFeatures, "tempo")
  /\ HighestSimilarity(1)
  /\ HighestSimilarity(2)
  /\ comparison # Absent
  /\ comparison[1].value.closest_match.artist = Some("Bonobo")

\* Both calls on the track have returned the record of the catch block: the
\* file is there and neither run got through it.
BothFellBack ==
  /\ trackOnDisk
  /\ \A r \in Runs : outer[r] = "fulfilled" /\ result[r][1].kind = "default"

C22_FlagsReadOnlyAfterStartup ==
  [][startup = "done" =>
       /\ isConnected' = isConnected
       /\ essentiaAvailable' = essentiaAvailable]_vars

\* The job is in the in-memory queue.
InMemoryQueue(j) == \E i \in DOMAIN memoryQueue : memoryQueue[i] = j

\* C23: a call of queueTrackAnalysis made while Redis is not ready appends
\* the job to the in-memory queue and returns its id with the status
\* 'queued', and every job in the in-memory queue is in the end processed
\* to 'completed' or 'failed' and removed from the queue.
C23_MemoryJobProcessed ==
  /\ [][\A j \in Jobs :
          (queueCall[j] = "notCalled" /\ queueCall'[j] # "notCalled" /\ ~isConnected) =>
            /\ memoryQueue' = Append(memoryQueue, j)
            /\ queueCall'[j] = "returned"
            /\ queueReply'[j] # Absent
            /\ queueReply'[j][1].jobId = j
            /\ queueReply'[j][1].status = "queued"]_vars
  /\ \A j \in Jobs :
       InMemoryQueue(j) ~> (jobStatus[j] \in {"completed", "failed"} /\ ~InMemoryQueue(j))

\* A job queued in memory behind another one has been processed to
\* 'completed' and shifted out of the queue.
C23_Witness ==
  /\ queueReply["job2"] = Some(QueuedReply("job2", FALSE))
  /\ shiftedBy["job1"] # ""
  /\ shiftedBy["job2"] # ""
  /\ passesLogged["job2"] > 0
  /\ passes["job2"] = 0
  /\ jobStatus["job2"] = "completed"
  /\ ~InMemoryQueue("job2")

\* C24: under every interleaving of queueTrackAnalysis calls and job
\* completions the in-memory queue starts processing each job at most once,
\* has at most one job in processing at any time, and has a job removed
\* only by the pass that processed it.
C24_EachJobOncePerPass ==
  /\ \A j \in Jobs : passesLogged[j] <= 1
  /\ \A j \in Jobs : passes[j] <= 1
  /\ \A j, k \in Jobs : (passes[j] > 0 /\ passes[k] > 0) => j = k
  /\ \A j \in Jobs : shiftedBy[j] \in {"", j}

\* The place of a job in the order in which the jobs were put on the list.
PlaceIn(order, j) == CHOOSE i \in DOMAIN order : order[i] = j

\* C27: the queue processor takes the jobs of the Redis list in the order
\* in which queueTrackAnalysis put them there: of two jobs taken, the one
\* taken first was put on the list first.
C27_RedisQueueIsFifo ==
  \A first, second \in DOMAIN taken :
    first < second => PlaceIn(pushed, taken[first]) < PlaceIn(pushed, taken[second])

C26_TimeoutRejectionHandled ==
  \A c \in Calls : timeoutPromise[c] = "rejected" => raceHandler[c]

\* The delays generateFeedback has slept after so many failed attempts.
BackoffsAfter(failures) == [n \in 1..failures |-> 2000 * n]

\* C28: generateFeedback makes at most 3 OpenAI requests, sleeps 2000 * n
\* ms after the n-th failed attempt before the next one, returns the
\* response of the first request that is answered, returns the fallback of
\* the same shape after the third failure, never throws, and always
\* terminates.
C28_GenerateFeedbackRetries ==
  /\ [](\A i \in Invocations :
         /\ requests[i] <= 3
         /\ attempts[i] <= 3
         /\ generatePc[i] = "calling" =>
              requests[i] = attempts[i] + 1 /\ backoffs[i] = BackoffsAfter(attempts[i])
         /\ generatePc[i] = "waiting" =>
              requests[i] = attempts[i] /\ backoffs[i] = BackoffsAfter(attempts[i])
         /\ generatePc[i] = "settled" =>
              /\ generated[i][1].status = "fulfilled"
              /\ generated[i][1].value.kind = "response" =>
                    requests[i] = attempts[i] + 1 /\ backoffs[i] = BackoffsAfter(attempts[i])
              /\ generated[i][1].value.kind = "fallback" =>
                    /\ attempts[i] \in {0, 3}
                    /\ requests[i] = attempts[i]
                    /\ backoffs[i] = BackoffsAfter(IF attempts[i] = 3 THEN 2 ELSE 0)
                    /\ generated[i][1].value.hasMessage
                    /\ generated[i][1].value.hasContent)
  /\ \A i \in Invocations : (generatePc[i] # "idle") ~> (generatePc[i] = "settled")

\* One invocation has returned the fallback after three failed requests
\* and sleeps of 2000 and 4000 ms, the other the response of its third
\* request.
C28_Witness ==
  /\ generatePc["inv1"] = "settled"
  /\ requests["inv1"] = 3
  /\ attempts["inv1"] = 3
  /\ backoffs["inv1"] = <<2000, 4000>>
  /\ generated["inv1"][1].value = FallbackCompletion
  /\ generatePc["inv2"] = "settled"
  /\ requests["inv2"] = 3
  /\ attempts["inv2"] = 2
  /\ generated["inv2"][1].value.kind = "response"

\* The upload failed while the app is in the 'Analyzing' step: onError has
\* set App's error and nothing has reset it.
FailedWhileAnalyzing == activeStep = 1 /\ error # Absent

\* C29: once an upload has failed while the app is in the 'Analyzing' step,
\* the app eventually shows the error message with its 'Try Again' action
\* (or the user has left the step); it does not stay on the spinner.
C29_FailedUploadShowsError ==
  FailedWhileAnalyzing ~> (RealFeedbackPanel = "error" \/ ~FailedWhileAnalyzing)

\* C30: in every formatted record the two dynamics flags agree:
\* dynamics.improvementNeeded is true exactly when dynamics.quality is
\* 'Limited dynamic range', whatever the dynamic range, absent included.
C30_DynamicsFlagsAgree ==
  \A r \in Runs :
    (result[r] # Absent /\ result[r][1].kind = "formatted") =>
      (result[r][1].dynamics.improvementNeeded
         <=> result[r][1].dynamics.quality = "Limited dynamic range")

====
